---------------------------- MODULE Spec2Model ----------------------------
(***************************************************************************)
(* Model of bet_v2: the ledger (universal_log) with its rollup tables as   *)
(* maintained by DatabaseManager, and the UnifiedParser text parser.       *)
(*                                                                         *)
(* Specifications:                                                         *)
(*   Spec      - one connection; every DatabaseManager call is one step    *)
(*   SpecFault - Spec with SQL statements that may raise inside a call     *)
(*   SpecConc  - two threads, each on its own connection, statement steps  *)
(*   SpecLine  - UnifiedParser / ParserAdapter on one-line inputs          *)
(*   SpecBatch - UnifiedParser / ParserAdapter on multi-line inputs        *)
(***************************************************************************)
EXTENDS Integers, Sequences, FiniteSets, TLC

VARIABLES
    db,        \* the committed SQLite store: customers, universal_log, rollup tables
    lastOp,    \* history: the last DatabaseManager call, its inputs and what it returned
    threads,   \* SpecConc: per-thread position and locals of the running call
    input,     \* parser input string (sequence of characters)
    shape,     \* history: how the input text was composed (tokens, separators, value)
    result,    \* the dictionary returned by UnifiedParser.parse
    adapter,   \* outcome of ParserAdapter.parse on the same text
    pc         \* which specification is running, and its input family

vars == <<db, lastOp, threads, input, shape, result, adapter, pc>>

dbVars == <<db, lastOp, threads>>
parseVars == <<input, shape, result, adapter>>

(***************************************************************************)
(* Bounds of the model                                                     *)
(***************************************************************************)
MaxEntries == 2

(***************************************************************************)
(* Small input domains                                                     *)
(***************************************************************************)
CustomerIds == {1, 2}
Names == {"A", "B", "C"}
Bazars == {"T.O", "T.K"}
Dates == {"d1"}
Numbers == {5, 12}
Values == {0, 1}
EntryTypes == {"PANA", "TIME_DIRECT", "JODI"}
TimeTypes == {"TIME_DIRECT", "TIME_MULTI"}
SourceLines == {"src"}
\* A run of the ledger specifications works inside one input family: market
\* and kind always vary, and one more field varies with the family.
Families == {"customers", "numbers", "values", "names"}
\* SpecFault adds statement failures; its runs vary the kind only, or the names
FaultFamilies == {"kinds", "names"}

\* generic helpers -----------------------------------------------------------
RECURSIVE SumValues(_)
SumValues(S) ==
    IF S = {} THEN 0
    ELSE LET r == CHOOSE x \in S : TRUE IN r.value + SumValues(S \ {r})

Perms(S) ==
    {s \in [1..Cardinality(S) -> S] : \A i, j \in 1..Cardinality(S) : i # j => s[i] # s[j]}

Ok(d) == [db |-> d, raised |-> FALSE]
Raise(d) == [db |-> d, raised |-> TRUE]

(***************************************************************************)
(* Rollup recomputation (db_manager.py 486-674).  Every operator takes the *)
(* store d as seen by the open transaction and the name f of the SQL       *)
(* statement that raises an exception in this run ("none" for no failure). *)
(***************************************************************************)
\* the DELETE of the slice matches no row
PanaClearNothing(d, bazar, entry_date) == d

PanaClear(d, bazar, entry_date) ==
    [d EXCEPT !.pana_table =
        {r \in @ : ~(r.bazar = bazar /\ r.entry_date = entry_date)}]

PanaInsert(d, bazar, entry_date) ==
    LET rows == {r \in d.universal_log :
                    r.bazar = bazar /\ r.entry_date = entry_date /\ r.entry_type = "PANA"}
        nums == {r.number : r \in rows}
        grp(n) == {r \in rows : r.number = n}
    IN [d EXCEPT !.pana_table = @ \cup
          {[bazar |-> bazar, entry_date |-> entry_date, number |-> n,
            value |-> SumValues(grp(n))] : n \in {m \in nums : SumValues(grp(m)) > 0}}]

recalculate_pana_table(d, bazar, entry_date, f) ==
    IF f = "pana_clear" THEN Raise(d)
    ELSE LET d1 == PanaClear(d, bazar, entry_date)
         IN IF f = "pana_insert" THEN Raise(d1)
            ELSE Ok(PanaInsert(d1, bazar, entry_date))

\* a recomputation that leaves the old rows of the key in place
TimeClearNothing(d, customer_id, bazar, entry_date) == d

TimeClear(d, customer_id, bazar, entry_date) ==
    [d EXCEPT !.time_table =
        {r \in @ : ~(r.customer_id = customer_id /\ r.bazar = bazar
                     /\ r.entry_date = entry_date)}]

TimeInsert(d, customer_id, customer_name, bazar, entry_date) ==
    LET rows == {r \in d.universal_log :
                    /\ r.customer_id = customer_id /\ r.bazar = bazar
                    /\ r.entry_date = entry_date
                    /\ r.entry_type \in TimeTypes
                    /\ r.number >= 0 /\ r.number <= 9}
        column_totals == {r.number : r \in rows}
        col_values == [c \in 0..9 |-> SumValues({r \in rows : r.number = c})]
    IN IF column_totals = {} THEN d
       ELSE [d EXCEPT !.time_table = @ \cup
               {[customer_id |-> customer_id, customer_name |-> customer_name,
                 bazar |-> bazar, entry_date |-> entry_date, cols |-> col_values]}]

recalculate_time_table(d, customer_id, customer_name, bazar, entry_date, f) ==
    IF f = "time_clear" THEN Raise(d)
    ELSE LET d1 == TimeClear(d, customer_id, bazar, entry_date)
         IN IF f = "time_insert" THEN Raise(d1)
            ELSE Ok(TimeInsert(d1, customer_id, customer_name, bazar, entry_date))

JodiClear(d, bazar, entry_date) ==
    [d EXCEPT !.jodi_table =
        {r \in @ : ~(r.bazar = bazar /\ r.entry_date = entry_date)}]

JodiInsert(d, bazar, entry_date) ==
    LET rows == {r \in d.universal_log :
                    /\ r.bazar = bazar /\ r.entry_date = entry_date
                    /\ r.entry_type = "JODI"
                    /\ r.number >= 0 /\ r.number <= 99}
        nums == {r.number : r \in rows}
        grp(n) == {r \in rows : r.number = n}
    IN [d EXCEPT !.jodi_table = @ \cup
          {[bazar |-> bazar, entry_date |-> entry_date, jodi_number |-> n,
            value |-> SumValues(grp(n))] : n \in {m \in nums : SumValues(grp(m)) > 0}}]

\* the except clause of _recalculate_jodi_table logs and does not re-raise
recalculate_jodi_table(d, bazar, entry_date, f) ==
    IF ~d.jodi_table_exists THEN Ok(d)
    ELSE IF f = "jodi_clear" THEN Ok(d)
    ELSE LET d1 == JodiClear(d, bazar, entry_date)
         IN IF f = "jodi_insert" THEN Ok(d1)
            ELSE Ok(JodiInsert(d1, bazar, entry_date))

SummaryClear(d, customer_id, entry_date) ==
    [d EXCEPT !.customer_bazar_summary =
        {r \in @ : ~(r.customer_id = customer_id /\ r.entry_date = entry_date)}]

\* the bazar names that have a column in customer_bazar_summary
bazar_mapping == {"T.O", "T.K", "M.O", "M.K", "K.O", "K.K", "NMO", "NMK", "B.O", "B.K"}

SummaryInsert(d, customer_id, customer_name, entry_date) ==
    LET rows == {r \in d.universal_log :
                    r.customer_id = customer_id /\ r.entry_date = entry_date}
        grp(b) == {r \in rows : r.bazar = b}
        bazar_totals == {b \in {r.bazar : r \in rows} : SumValues(grp(b)) > 0}
        column_values == [b \in bazar_mapping |->
                            IF b \in bazar_totals THEN SumValues(grp(b)) ELSE 0]
    IN IF bazar_totals = {} THEN d
       ELSE [d EXCEPT !.customer_bazar_summary = @ \cup
               {[customer_id |-> customer_id, customer_name |-> customer_name,
                 entry_date |-> entry_date, totals |-> column_values]}]

recalculate_customer_summary(d, customer_id, customer_name, entry_date, f) ==
    IF f = "summary_clear" THEN Raise(d)
    ELSE LET d1 == SummaryClear(d, customer_id, entry_date)
         IN IF f = "summary_insert" THEN Raise(d1)
            ELSE Ok(SummaryInsert(d1, customer_id, customer_name, entry_date))

\* c is the context tuple (customer_id, customer_name, entry_date, bazar, entry_type)
recalculate_aggregated_tables_for_context(d, c, f) ==
    LET r1 == IF c.entry_type = "PANA"
              THEN recalculate_pana_table(d, c.bazar, c.entry_date, f) ELSE Ok(d)
        r2 == IF r1.raised THEN r1
              ELSE IF c.entry_type \in TimeTypes
              THEN recalculate_time_table(r1.db, c.customer_id, c.customer_name,
                                          c.bazar, c.entry_date, f)
              ELSE r1
        r3 == IF r2.raised THEN r2
              ELSE IF c.entry_type = "JODI"
              THEN recalculate_jodi_table(r2.db, c.bazar, c.entry_date, f)
              ELSE r2
    IN IF r3.raised THEN r3
       ELSE recalculate_customer_summary(r3.db, c.customer_id, c.customer_name,
                                         c.entry_date, f)

\* the statements a recomputation of context c executes
Statements(c) ==
    (IF c.entry_type = "PANA" THEN {"pana_clear", "pana_insert"} ELSE {})
    \cup (IF c.entry_type \in TimeTypes THEN {"time_clear", "time_insert"} ELSE {})
    \cup (IF c.entry_type = "JODI" THEN {"jodi_clear", "jodi_insert"} ELSE {})
    \cup {"summary_clear", "summary_insert"}

Context(customer_id, customer_name, entry_date, bazar, entry_type) ==
    [customer_id |-> customer_id, customer_name |-> customer_name,
     entry_date |-> entry_date, bazar |-> bazar, entry_type |-> entry_type]

(***************************************************************************)
(* DatabaseManager calls, each run on one connection inside                *)
(* `with self.transaction()`: commit on normal exit, rollback on exception *)
(***************************************************************************)
NoFault == [k |-> 0, stmt |-> "none"]

RECURSIVE RecalcAll(_, _, _, _)
\* the loop `for context in contexts_to_recalc` over the iteration order seq
RecalcAll(d, seq, i, fault) ==
    IF i > Len(seq) THEN Ok(d)
    ELSE LET r == recalculate_aggregated_tables_for_context(
                      d, seq[i], IF fault.k = i THEN fault.stmt ELSE "none")
         IN IF r.raised THEN r ELSE RecalcAll(r.db, seq, i + 1, fault)

LogRow(id, entry_data) ==
    [id |-> id, customer_id |-> entry_data.customer_id,
     customer_name |-> entry_data.customer_name,
     entry_date |-> entry_data.entry_date, bazar |-> entry_data.bazar,
     number |-> entry_data.number, value |-> entry_data.value,
     entry_type |-> entry_data.entry_type,
     source_line |-> entry_data.source_line, created_at |-> id]

RowContext(r) ==
    Context(r.customer_id, r.customer_name, r.entry_date, r.bazar, r.entry_type)

\* insert_and_get_id: INSERT INTO universal_log, commit, return lastrowid
add_universal_log_entry(d, entry_data) ==
    [db |-> [d EXCEPT !.universal_log = @ \cup {LogRow(d.next_id, entry_data)},
                      !.next_id = @ + 1],
     ret |-> d.next_id]

allowed_fields == {"number", "value", "entry_type", "bazar", "source_line"}

\* updates.get(field, default)
Get(updates, field, default) ==
    IF field \in DOMAIN updates THEN updates[field] ELSE default

\* the contexts update_universal_log_entry puts in contexts_to_recalc
UpdateContexts(entry, correct_customer_name, updates) ==
    LET new_bazar == Get(updates, "bazar", entry.bazar)
        new_entry_type == Get(updates, "entry_type", entry.entry_type)
    IN {Context(entry.customer_id, correct_customer_name, entry.entry_date,
                entry.bazar, entry.entry_type)}
       \cup (IF new_bazar # entry.bazar \/ new_entry_type # entry.entry_type
             THEN {Context(entry.customer_id, correct_customer_name, entry.entry_date,
                           new_bazar, new_entry_type)}
             ELSE {})

\* an UPDATE that sets every field the updates dictionary names
UpdatedRowAnyField(cur, updates, correct_customer_name) ==
    [f \in DOMAIN cur |->
        IF f \in DOMAIN updates THEN updates[f]
        ELSE IF f = "customer_name" THEN correct_customer_name
        ELSE cur[f]]

\* the row after UPDATE universal_log SET <update_fields> WHERE id = ?
UpdatedRow(cur, updates, correct_customer_name) ==
    [f \in DOMAIN cur |->
        IF f \in allowed_fields /\ f \in DOMAIN updates THEN updates[f]
        ELSE IF f = "customer_name" THEN correct_customer_name
        ELSE cur[f]]

\* the update without the lookup of the active customer: the name of the
\* customers row is taken whether or not the customer is active
update_without_active_check(d, entry_id, updates, seq, fault) ==
    LET current_entry == {r \in d.universal_log : r.id = entry_id}
    IN IF current_entry = {} THEN [db |-> d, ret |-> FALSE]
       ELSE
       LET entry == CHOOSE r \in current_entry : TRUE
           correct_customer_name == d.customers[entry.customer_id].name
           update_fields == (DOMAIN updates \cap allowed_fields)
                            \cup (IF entry.customer_name # correct_customer_name
                                  THEN {"customer_name"} ELSE {})
       IN IF update_fields = {} THEN [db |-> d, ret |-> FALSE]
          ELSE
          LET d1 == [d EXCEPT !.universal_log =
                       (@ \ {entry}) \cup {UpdatedRow(entry, updates, correct_customer_name)}]
              r == RecalcAll(d1, seq, 1, fault)
          IN IF r.raised THEN [db |-> d, ret |-> FALSE]
             ELSE [db |-> r.db, ret |-> TRUE]

\* entry: the row returned by the first SELECT ({} when there is none);
\* seq: the iteration order of the set contexts_to_recalc
update_universal_log_entry(d, entry_id, updates, seq, fault) ==
    LET current_entry == {r \in d.universal_log : r.id = entry_id}
    IN IF current_entry = {} THEN [db |-> d, ret |-> FALSE]
       ELSE
       LET entry == CHOOSE r \in current_entry : TRUE
           customer == d.customers[entry.customer_id]
       IN IF ~customer.is_active THEN [db |-> d, ret |-> FALSE]
          ELSE
          LET correct_customer_name == customer.name
              update_fields == (DOMAIN updates \cap allowed_fields)
                               \cup (IF entry.customer_name # correct_customer_name
                                     THEN {"customer_name"} ELSE {})
          IN IF update_fields = {} THEN [db |-> d, ret |-> FALSE]
             ELSE IF fault.stmt = "mutation" THEN [db |-> d, ret |-> FALSE]
             ELSE
             LET d1 == [d EXCEPT !.universal_log =
                          (@ \ {entry}) \cup {UpdatedRow(entry, updates, correct_customer_name)}]
                 r == RecalcAll(d1, seq, 1, fault)
             IN IF r.raised THEN [db |-> d, ret |-> FALSE]
                ELSE [db |-> r.db, ret |-> TRUE]

delete_universal_log_entry(d, entry_id, fault) ==
    LET entry_result == {r \in d.universal_log : r.id = entry_id}
    IN IF entry_result = {} THEN [db |-> d, ret |-> FALSE]
       ELSE IF fault.stmt = "mutation" THEN [db |-> d, ret |-> FALSE]
       ELSE
       LET entry == CHOOSE r \in entry_result : TRUE
           d1 == [d EXCEPT !.universal_log = @ \ {entry}]
           r == recalculate_aggregated_tables_for_context(
                    d1, RowContext(entry), fault.stmt)
       IN IF r.raised THEN [db |-> d, ret |-> FALSE]
          ELSE [db |-> r.db, ret |-> TRUE]

\* the four UPDATE statements of the rename cascade, in order
CascadeStatements == <<"customers", "universal_log", "time_table", "customer_bazar_summary">>

Rename(rows, customer_id, name) ==
    {[r EXCEPT !.customer_name = IF r.customer_id = customer_id THEN name ELSE @]
        : r \in rows}

\* the cascade without its UPDATE of time_table
update_customer_without_time_table(d, customer_id, name, fault) ==
    IF customer_id \notin DOMAIN d.customers \/ ~d.customers[customer_id].is_active
    THEN [db |-> d, ret |-> FALSE]
    ELSE IF fault # "none"
            \/ \E o \in DOMAIN d.customers : o # customer_id /\ d.customers[o].name = name
    THEN [db |-> d, ret |-> FALSE]
    ELSE [db |-> [d EXCEPT !.customers[customer_id].name = name,
                          !.universal_log = Rename(@, customer_id, name),
                          !.customer_bazar_summary = Rename(@, customer_id, name)],
          ret |-> TRUE]

\* customers.name is UNIQUE: the first UPDATE raises when another row has the name
update_customer(d, customer_id, name, fault) ==
    IF customer_id \notin DOMAIN d.customers \/ ~d.customers[customer_id].is_active
    THEN [db |-> d, ret |-> FALSE]
    ELSE IF fault = "customers"
            \/ \E o \in DOMAIN d.customers : o # customer_id /\ d.customers[o].name = name
    THEN [db |-> d, ret |-> FALSE]
    ELSE LET d1 == [d EXCEPT !.customers[customer_id].name = name]
             d2 == [d1 EXCEPT !.universal_log = Rename(@, customer_id, name)]
             d3 == [d2 EXCEPT !.time_table = Rename(@, customer_id, name)]
             d4 == [d3 EXCEPT !.customer_bazar_summary = Rename(@, customer_id, name)]
         IN IF fault \in {"universal_log", "time_table", "customer_bazar_summary"}
            THEN [db |-> d, ret |-> FALSE]
            ELSE [db |-> d4, ret |-> TRUE]

\* soft delete: UPDATE customers SET is_active = 0 WHERE id = ?
delete_customer(d, customer_id) ==
    IF customer_id \notin DOMAIN d.customers THEN [db |-> d, ret |-> FALSE]
    ELSE [db |-> [d EXCEPT !.customers[customer_id].is_active = FALSE], ret |-> TRUE]

(***************************************************************************)
(* Spec: the calls made one at a time on one connection.                   *)
(* SpecFault: the same calls when an SQL statement of the recomputation or *)
(* of the rename cascade may raise.                                        *)
(***************************************************************************)
UpdateDomains ==
    {{}, {"number"}, {"value"}, {"entry_type"}, {"bazar"}, {"source_line"},
     {"bazar", "entry_type"}}

\* the values the callers supply for each field inside an input family
CustomerIdsOf(family) == IF family = "customers" THEN CustomerIds ELSE {1}
NumbersOf(family) == IF family = "numbers" THEN Numbers ELSE {5}
ValuesOf(family) == IF family = "values" THEN Values ELSE {1}
BazarsOf(family) == IF family \in {"names", "kinds"} THEN {"T.O"} ELSE Bazars
EntryTypesOf(family) == IF family = "names" THEN {"PANA", "TIME_DIRECT"} ELSE EntryTypes
\* customer_name is the name in the customers table, or any name when the
\* caller works from a stale customer list
NamesOf(family, d, customer_id) ==
    IF family = "names" THEN Names ELSE {d.customers[customer_id].name}

\* the `updates` dictionaries the callers pass
UpdateMaps(family) ==
    {[f \in D |-> u[f]] :
        u \in [number : NumbersOf(family), value : ValuesOf(family),
               entry_type : EntryTypesOf(family), bazar : BazarsOf(family),
               source_line : SourceLines],
        D \in UpdateDomains}

EntryData(family, d) ==
    {e \in [customer_id : CustomerIdsOf(family), customer_name : Names,
            entry_date : Dates, bazar : BazarsOf(family),
            number : NumbersOf(family), value : ValuesOf(family),
            entry_type : EntryTypesOf(family), source_line : SourceLines] :
        e.customer_name \in NamesOf(family, d, e.customer_id)}

EmptyDb ==
    [customers |-> [c \in CustomerIds |->
                       [name |-> IF c = 1 THEN "A" ELSE "B", is_active |-> TRUE]],
     universal_log |-> {}, next_id |-> 1,
     pana_table |-> {}, time_table |-> {}, jodi_table |-> {},
     customer_bazar_summary |-> {}, jodi_table_exists |-> TRUE]

NoOp == [op |-> "none", id |-> 0, ret |-> FALSE, fault |-> "none"]

IdleThreads == [t \in {1, 2} |-> [pc |-> "idle"]]
NoText == <<>>
NoShape == [kind |-> "none"]
NoResult == [done |-> FALSE]

InitParseVars ==
    /\ input = NoText
    /\ shape = NoShape
    /\ result = NoResult
    /\ adapter = NoResult

Init ==
    /\ \E family \in Families : pc = [spec |-> "db", family |-> family]
    /\ db = EmptyDb
    /\ lastOp = NoOp
    /\ threads = IdleThreads
    /\ InitParseVars

InitFault ==
    /\ \E family \in FaultFamilies : pc = [spec |-> "fault", family |-> family]
    /\ db = EmptyDb
    /\ lastOp = NoOp
    /\ threads = IdleThreads
    /\ InitParseVars

Sequential == pc.spec \in {"db", "fault"}

AddEntry ==
    /\ Sequential
    /\ db.next_id <= MaxEntries
    /\ \E entry_data \in EntryData(pc.family, db) :
          LET r == add_universal_log_entry(db, entry_data)
          IN /\ db' = r.db
             /\ lastOp' = [op |-> "insert", id |-> r.ret, ret |-> TRUE, fault |-> "none"]
    /\ UNCHANGED <<threads, parseVars, pc>>

\* the statement failures a call that recomputes the contexts seq can meet
FaultsOf(seq) ==
    IF pc.spec # "fault" THEN {NoFault}
    ELSE {NoFault, [k |-> 0, stmt |-> "mutation"]}
         \cup UNION {{[k |-> i, stmt |-> s] : s \in Statements(seq[i])} : i \in 1..Len(seq)}

RowOf(d, id) == CHOOSE r \in d.universal_log : r.id = id
HasRow(d, id) == \E r \in d.universal_log : r.id = id

UpdateEntry ==
    /\ Sequential
    /\ \E id \in 1..MaxEntries, updates \in UpdateMaps(pc.family) :
          LET contexts_to_recalc ==
                  IF HasRow(db, id)
                  THEN UpdateContexts(RowOf(db, id),
                                      db.customers[RowOf(db, id).customer_id].name, updates)
                  ELSE {}
          IN \E seq \in Perms(contexts_to_recalc) :
             \E fault \in FaultsOf(seq) :
                LET r == update_universal_log_entry(db, id, updates, seq, fault)
                IN /\ db' = r.db
                   /\ lastOp' = [op |-> "update", id |-> id, ret |-> r.ret,
                                 fault |-> fault.stmt]
    /\ UNCHANGED <<threads, parseVars, pc>>

DeleteEntry ==
    /\ Sequential
    /\ \E id \in 1..MaxEntries :
          LET seq == IF HasRow(db, id) THEN <<RowContext(RowOf(db, id))>> ELSE <<>>
          IN \E fault \in FaultsOf(seq) :
                LET r == delete_universal_log_entry(db, id, fault)
                IN /\ db' = r.db
                   /\ lastOp' = [op |-> "delete", id |-> id, ret |-> r.ret,
                                 fault |-> fault.stmt]
    /\ UNCHANGED <<threads, parseVars, pc>>

CascadeFaults ==
    IF pc.spec # "fault" THEN {"none"}
    ELSE {"none"} \cup {CascadeStatements[i] : i \in 1..Len(CascadeStatements)}

UpdateCustomer ==
    /\ Sequential
    /\ pc.family = "names"
    /\ \E customer_id \in CustomerIdsOf(pc.family), name \in Names, fault \in CascadeFaults :
          LET r == update_customer(db, customer_id, name, fault)
          IN /\ db' = r.db
             /\ lastOp' = [op |-> "update_customer", id |-> customer_id, ret |-> r.ret,
                           fault |-> fault]
    /\ UNCHANGED <<threads, parseVars, pc>>

DeleteCustomer ==
    /\ Sequential
    /\ pc.family = "names"
    /\ \E customer_id \in CustomerIdsOf(pc.family) :
          LET r == delete_customer(db, customer_id)
          IN /\ db' = r.db
             /\ lastOp' = [op |-> "delete_customer", id |-> customer_id, ret |-> r.ret,
                           fault |-> "none"]
    /\ UNCHANGED <<threads, parseVars, pc>>

Next ==
    \/ AddEntry
    \/ UpdateEntry
    \/ DeleteEntry
    \/ UpdateCustomer
    \/ DeleteCustomer

Spec == Init /\ [][Next]_vars

SpecFault == InitFault /\ [][Next]_vars

(***************************************************************************)
(* UnifiedParser (unified_parser.py).  A string is a sequence of           *)
(* characters; a character is a one-character string, except the three     *)
(* non-ASCII ones, which are written by their code points.                 *)
(***************************************************************************)
BlackStar == "U+2605"
HeavyAsterisk == "U+2731"
Rupee == "U+20B9"
NL == "\n"

Digits == <<"0", "1", "2", "3", "4", "5", "6", "7", "8", "9">>
LowerCase == <<"a", "b", "c", "d", "e", "f", "g", "h", "i", "j", "k", "l", "m",
               "n", "o", "p", "q", "r", "s", "t", "u", "v", "w", "x", "y", "z">>
UpperCase == <<"A", "B", "C", "D", "E", "F", "G", "H", "I", "J", "K", "L", "M",
               "N", "O", "P", "Q", "R", "S", "T", "U", "V", "W", "X", "Y", "Z">>

Range(s) == {s[i] : i \in DOMAIN s}
IsDigit(c) == c \in Range(Digits)
DigitValue(c) == (CHOOSE i \in DOMAIN Digits : Digits[i] = c) - 1
\* str.strip() and \s: the whitespace characters of the inputs
IsSpace(c) == c \in {" ", NL}
\* str.upper() on one character
Upper(c) ==
    IF c \in Range(LowerCase)
    THEN UpperCase[CHOOSE i \in DOMAIN LowerCase : LowerCase[i] = c]
    ELSE c
upper(s) == [i \in DOMAIN s |-> Upper(s[i])]

RECURSIVE int(_)
\* int(num_str) for a string of digits
int(s) == IF s = <<>> THEN 0 ELSE 10 * int(SubSeq(s, 1, Len(s) - 1)) + DigitValue(s[Len(s)])

\* str.isdigit()
isdigit(s) == s # <<>> /\ \A i \in DOMAIN s : IsDigit(s[i])
Contains(s, c) == \E i \in DOMAIN s : s[i] = c

RECURSIVE lstrip(_)
lstrip(s) == IF s # <<>> /\ IsSpace(s[1]) THEN lstrip(Tail(s)) ELSE s
RECURSIVE rstrip(_)
rstrip(s) == IF s # <<>> /\ IsSpace(s[Len(s)]) THEN rstrip(SubSeq(s, 1, Len(s) - 1)) ELSE s
strip(s) == lstrip(rstrip(s))

RECURSIVE Split(_, _)
\* s.split(c) for a one-character separator c
Split(s, c) ==
    IF ~Contains(s, c) THEN <<s>>
    ELSE LET i == CHOOSE k \in DOMAIN s : s[k] = c /\ \A j \in 1..(k - 1) : s[j] # c
         IN <<SubSeq(s, 1, i - 1)>> \o Split(SubSeq(s, i + 1, Len(s)), c)

RECURSIVE Join(_, _)
\* c.join(parts)
Join(parts, c) ==
    IF parts = <<>> THEN <<>>
    ELSE IF Len(parts) = 1 THEN parts[1]
    ELSE parts[1] \o <<c>> \o Join(Tail(parts), c)

RECURSIVE Remove(_, _)
\* s.replace(c, '') for one character c
Remove(s, c) ==
    IF s = <<>> THEN <<>>
    ELSE IF s[1] = c THEN Remove(Tail(s), c) ELSE <<s[1]>> \o Remove(Tail(s), c)

RECURSIVE RemovePair(_, _, _)
\* s.replace(ab, '') for the two-character string ab, left to right
RemovePair(s, a, b) ==
    IF Len(s) < 2 THEN s
    ELSE IF s[1] = a /\ s[2] = b THEN RemovePair(SubSeq(s, 3, Len(s)), a, b)
    ELSE <<s[1]>> \o RemovePair(Tail(s), a, b)

\* the line is left as written
ReplaceNothing(s) == s

RECURSIVE ReplaceDoubleEquals(_)
\* line.replace('==', '=')
ReplaceDoubleEquals(s) ==
    IF Len(s) < 2 THEN s
    ELSE IF s[1] = "=" /\ s[2] = "="
         THEN <<"=">> \o ReplaceDoubleEquals(SubSeq(s, 3, Len(s)))
    ELSE <<s[1]>> \o ReplaceDoubleEquals(Tail(s))

RECURSIVE LeadingDigits(_)
\* re.match(r'(\d+)', part): the leading digit run, <<>> when there is none
LeadingDigits(s) ==
    IF s # <<>> /\ IsDigit(s[1]) THEN <<s[1]>> \o LeadingDigits(Tail(s)) ELSE <<>>

RECURSIVE FirstDigitRun(_)
\* re.search(r'\d+', s): the first digit run, <<>> when there is none
FirstDigitRun(s) ==
    IF s = <<>> THEN <<>>
    ELSE IF IsDigit(s[1]) THEN LeadingDigits(s) ELSE FirstDigitRun(Tail(s))

\* the class [*/\-,\s|:+] of self.separators_pattern
IsSeparator(c) == c \in {"*", "/", "-", ",", "|", ":", "+"} \/ IsSpace(c)

RECURSIVE SplitSeparators(_, _)
\* re.split(self.separators_pattern, text) without its empty parts; cur is the
\* part being read
SplitSeparators(s, cur) ==
    IF s = <<>> THEN (IF cur = <<>> THEN <<>> ELSE <<cur>>)
    ELSE IF IsSeparator(s[1])
         THEN (IF cur = <<>> THEN <<>> ELSE <<cur>>) \o SplitSeparators(Tail(s), <<>>)
    ELSE SplitSeparators(Tail(s), Append(cur, s[1]))

RECURSIVE NumbersOfParts(_)
NumbersOfParts(parts) ==
    IF parts = <<>> THEN <<>>
    ELSE (IF LeadingDigits(parts[1]) # <<>> THEN <<LeadingDigits(parts[1])>> ELSE <<>>)
         \o NumbersOfParts(Tail(parts))

\* _extract_numbers: the leading digit run of every part that has one
extract_numbers(text) == NumbersOfParts(SplitSeparators(text, <<>>))

Ret(v) == [raised |-> FALSE, value |-> v]
Exc(msg) == [raised |-> TRUE, error |-> msg]

\* _extract_value
extract_value(text) ==
    LET cleaned == strip(Remove(Remove(RemovePair(upper(text), "R", "S"), Rupee), ","))
        match == FirstDigitRun(cleaned)
    IN IF match # <<>> THEN Ret(int(match)) ELSE Exc("No numeric value found")

\* the kind taken from the integer's magnitude instead of the token's length
classify_by_magnitude(num_str) ==
    IF Len(num_str) \notin 1..3 THEN Exc("Invalid number length")
    ELSE IF int(num_str) <= 9 THEN Ret([entry_type |-> "time", number |-> int(num_str)])
    ELSE IF int(num_str) <= 99 THEN Ret([entry_type |-> "jodi", number |-> int(num_str)])
    ELSE Ret([entry_type |-> "pana", number |-> int(num_str)])

\* _classify_by_length
classify_by_length(num_str) ==
    LET length == Len(num_str)
        num_value == int(num_str)
    IN IF length = 1
       THEN (IF 0 <= num_value /\ num_value <= 9
             THEN Ret([entry_type |-> "time", number |-> num_value])
             ELSE Exc("Invalid time number"))
       ELSE IF length = 2
       THEN (IF 0 <= num_value /\ num_value <= 99
             THEN Ret([entry_type |-> "jodi", number |-> num_value])
             ELSE Exc("Invalid jodi number"))
       ELSE IF length = 3
       THEN (IF 0 <= num_value /\ num_value <= 999
             THEN Ret([entry_type |-> "pana", number |-> num_value])
             ELSE Exc("Invalid pana number"))
       ELSE Exc("Invalid number length")

ParsedEntry(number, value, entry_type) ==
    [cls |-> "ParsedEntry", number |-> number, value |-> value, entry_type |-> entry_type]
TypeTableEntry(column, table_type, value) ==
    [cls |-> "TypeTableEntry", column |-> column, table_type |-> table_type, value |-> value]
FamilyPanaEntry(reference_number, value) ==
    [cls |-> "FamilyPanaEntry", reference_number |-> reference_number, value |-> value]

\* _parse_family_pana_entry: ^(\d{3})(family|FAMILY|Family)$ on text.strip();
\* value None when the text is not of the family form
parse_family_pana_entry(text, value) ==
    LET t == strip(text)
        suffix == SubSeq(t, 4, Len(t))
    IN IF Len(t) = 9 /\ isdigit(SubSeq(t, 1, 3))
          /\ suffix \in {<<"f", "a", "m", "i", "l", "y">>, <<"F", "A", "M", "I", "L", "Y">>,
                         <<"F", "a", "m", "i", "l", "y">>}
       THEN (IF 100 <= int(SubSeq(t, 1, 3)) /\ int(SubSeq(t, 1, 3)) <= 999
             THEN Ret(<<FamilyPanaEntry(int(SubSeq(t, 1, 3)), value)>>)
             ELSE Exc("Family pana reference must be 100-999"))
       ELSE Ret(<<>>)

\* the alternation with DP tried before DPT
SuffixAtShortFirst(s) ==
    LET u == upper(s)
    IN IF Len(u) >= 2 /\ SubSeq(u, 1, 2) \in {<<"S", "P">>, <<"D", "P">>, <<"C", "P">>}
       THEN SubSeq(u, 1, 2)
       ELSE <<>>

\* the alternation (DPT|SP|DP|CP) with re.IGNORECASE, tried in this order at
\* the start of s; <<>> when none matches
SuffixAt(s) ==
    LET u == upper(s)
    IN IF Len(u) >= 3 /\ SubSeq(u, 1, 3) = <<"D", "P", "T">> THEN <<"D", "P", "T">>
       ELSE IF Len(u) >= 2 /\ SubSeq(u, 1, 2) = <<"S", "P">> THEN <<"S", "P">>
       ELSE IF Len(u) >= 2 /\ SubSeq(u, 1, 2) = <<"D", "P">> THEN <<"D", "P">>
       ELSE IF Len(u) >= 2 /\ SubSeq(u, 1, 2) = <<"C", "P">> THEN <<"C", "P">>
       ELSE <<>>

RECURSIVE FindTypeMatches(_)
\* re.findall(r'(\d+)(DPT|SP|DP|CP|dpt|sp|dp|cp)', text, re.IGNORECASE)
FindTypeMatches(s) ==
    IF s = <<>> THEN <<>>
    ELSE IF ~IsDigit(s[1]) THEN FindTypeMatches(Tail(s))
    ELSE LET run == LeadingDigits(s)
             rest == SubSeq(s, Len(run) + 1, Len(s))
             suf == SuffixAt(rest)
         IN IF suf = <<>> THEN FindTypeMatches(rest)
            ELSE <<[column_str |-> run, table_type |-> suf]>>
                 \o FindTypeMatches(SubSeq(rest, Len(suf) + 1, Len(rest)))

ColumnInRange(table_type, column) ==
    IF table_type = <<"S", "P">> THEN 1 <= column /\ column <= 10
    ELSE IF table_type \in {<<"D", "P">>, <<"D", "P", "T">>} THEN 1 <= column /\ column <= 10
    ELSE IF table_type = <<"C", "P">> THEN (11 <= column /\ column <= 99) \/ column = 0
    ELSE TRUE

\* _parse_type_table_entries; value <<>> when there is no match
parse_type_table_entries(text, value) ==
    LET matches == FindTypeMatches(text)
    IN IF \E i \in DOMAIN matches :
             ~ColumnInRange(matches[i].table_type, int(matches[i].column_str))
       THEN Exc("column out of range")
       ELSE Ret([i \in DOMAIN matches |->
                   TypeTableEntry(int(matches[i].column_str), matches[i].table_type, value)])

\* _parse_line
parse_line(raw) ==
    LET line == ReplaceDoubleEquals(raw)
    IN IF ~Contains(line, "=") THEN Exc("Missing value assignment (=)")
       ELSE
       LET eq == CHOOSE k \in DOMAIN line : line[k] = "=" /\ \A j \in 1..(k - 1) : line[j] # "="
           numbers_part == strip(SubSeq(line, 1, eq - 1))
           value_part == strip(SubSeq(line, eq + 1, Len(line)))
       IN IF numbers_part = <<>> THEN Exc("No numbers before =")
          ELSE IF value_part = <<>> THEN Exc("No value after =")
          ELSE
          LET v == extract_value(value_part)
          IN IF v.raised THEN v
             ELSE
             LET family_entry == parse_family_pana_entry(numbers_part, v.value)
             IN IF family_entry.raised THEN family_entry
                ELSE IF family_entry.value # <<>> THEN family_entry
                ELSE
                LET type_entries == parse_type_table_entries(numbers_part, v.value)
                IN IF type_entries.raised THEN type_entries
                   ELSE IF type_entries.value # <<>> THEN type_entries
                   ELSE
                   LET number_strings == extract_numbers(numbers_part)
                       cl == [i \in DOMAIN number_strings |->
                                 classify_by_length(number_strings[i])]
                   IN IF number_strings = <<>> THEN Exc("No valid numbers found")
                      ELSE IF \E i \in DOMAIN cl : cl[i].raised
                      THEN cl[CHOOSE i \in DOMAIN cl :
                                 cl[i].raised /\ \A j \in 1..(i - 1) : ~cl[j].raised]
                      ELSE Ret([i \in DOMAIN cl |->
                                  ParsedEntry(cl[i].value.number, v.value,
                                              cl[i].value.entry_type)])

ContainsPair(s, a, b) == \E i \in 1..(Len(s) - 1) : s[i] = a /\ s[i + 1] = b
EndsWith(s, c) == s # <<>> /\ s[Len(s)] = c
StartsWith(s, c) == s # <<>> /\ s[1] = c

\* text.upper().replace('RS', '').replace(rupee, '').replace(',', '').strip()
\* and then .replace(' ', '')
CleanedNoSpaces(s) ==
    Remove(strip(Remove(Remove(RemovePair(upper(s), "R", "S"), Rupee), ",")), " ")

\* _is_pure_value
is_pure_value(s) ==
    IF ContainsPair(upper(s), "R", "S") \/ Contains(s, Rupee) THEN TRUE
    ELSE IF EndsWith(rstrip(s), ",") THEN FALSE
    ELSE IF /\ Contains(s, ",") /\ ~StartsWith(s, ",") /\ ~EndsWith(s, ",")
            /\ isdigit(strip(Remove(s, ",")))
            /\ Len(strip(Remove(s, ","))) >= 4
    THEN TRUE
    ELSE IF ~isdigit(CleanedNoSpaces(s)) THEN FALSE
    ELSE IF Len(CleanedNoSpaces(s)) <= 3 THEN FALSE
    ELSE TRUE

\* a value line never counts as a candidate value
could_be_value_never(s) == FALSE

\* _could_be_value
could_be_value(s) ==
    IF \E c \in {"/", "-", "*", "+", ":", "|"} : Contains(s, c) THEN FALSE
    ELSE IF EndsWith(rstrip(s), ",") THEN FALSE
    ELSE isdigit(CleanedNoSpaces(s))

\* raw != raw.rstrip() and raw.rstrip() == raw.strip()
HadTrailingSpace(raw) == raw # rstrip(raw) /\ rstrip(raw) = strip(raw)

EmptyLines(n) == [k \in 1..n |-> <<>>]

RECURSIVE CombineFollowing(_, _, _, _, _, _)
\* the inner while loop of _preprocess_multiline_values: lines[j] is the next
\* line to look at; last_potential_value is <<>> for None
CombineFollowing(lines, j, combined, had_trailing_space, empty_lines_before_value, last_potential_value) ==
    IF j > Len(lines)
    THEN [out |-> <<IF last_potential_value # <<>>
                    THEN SubSeq(combined, 1, Len(combined) - Len(last_potential_value))
                         \o <<"=">> \o last_potential_value
                    ELSE combined>>,
          i |-> j]
    ELSE
    LET next_line == strip(lines[j])
    IN IF next_line = <<>>
       THEN CombineFollowing(lines, j + 1, combined, had_trailing_space,
                             empty_lines_before_value + 1, last_potential_value)
       ELSE IF StartsWith(next_line, "=")
       THEN [out |-> <<combined \o next_line>> \o EmptyLines(empty_lines_before_value),
             i |-> j + 1]
       ELSE IF is_pure_value(next_line)
       THEN [out |-> <<combined \o <<"=">> \o next_line>>
                     \o EmptyLines(empty_lines_before_value),
             i |-> j + 1]
       ELSE CombineFollowing(
                lines, j + 1,
                combined \o (IF had_trailing_space THEN <<" ">> ELSE <<>>) \o next_line,
                HadTrailingSpace(lines[j]), 0,
                IF could_be_value(next_line) THEN next_line ELSE last_potential_value)

RECURSIVE CombineLines(_, _)
\* the outer while loop of _preprocess_multiline_values
CombineLines(lines, i) ==
    IF i > Len(lines) THEN <<>>
    ELSE LET current_line == strip(lines[i])
         IN IF current_line = <<>> \/ Contains(current_line, "=")
            THEN <<current_line>> \o CombineLines(lines, i + 1)
            ELSE LET r == CombineFollowing(lines, i + 1, current_line,
                                           HadTrailingSpace(lines[i]), 0, <<>>)
                 IN r.out \o CombineLines(lines, r.i)

\* _preprocess_multiline_values
preprocess_multiline_values(s) == Join(CombineLines(Split(s, NL), 1), NL)

SelectCls(entries, cls) == SelectSeq(entries, LAMBDA e : e.cls = cls)
SelectType(entries, entry_type) ==
    SelectSeq(entries, LAMBDA e : e.cls = "ParsedEntry" /\ e.entry_type = entry_type)

\* one pass of the for loop of parse: r is what _parse_line returned or raised
\* for the line, rest the entries and errors of the lines after it
CollectLine(line_num, line, r, rest) ==
    IF line = <<>> THEN rest
    ELSE IF r.raised
    THEN [entries |-> rest.entries,
          errors |-> <<[line_num |-> line_num, error |-> r.error, input |-> line]>>
                     \o rest.errors]
    ELSE [entries |-> r.value \o rest.entries, errors |-> rest.errors]

RECURSIVE ParseLines(_, _)
\* the for loop of parse: the entries and the errors of lines[line_num..]
ParseLines(lines, line_num) ==
    IF line_num > Len(lines) THEN [entries |-> <<>>, errors |-> <<>>]
    ELSE CollectLine(line_num, strip(lines[line_num]),
                     parse_line(strip(lines[line_num])),
                     ParseLines(lines, line_num + 1))

ParseResult(success, all, errors) ==
    [done |-> TRUE, success |-> success,
     entries |-> SelectCls(all, "ParsedEntry"),
     time_entries |-> SelectType(all, "time"),
     jodi_entries |-> SelectType(all, "jodi"),
     pana_entries |-> SelectType(all, "pana"),
     type_entries |-> SelectCls(all, "TypeTableEntry"),
     family_pana_entries |-> SelectCls(all, "FamilyPanaEntry"),
     errors |-> errors]

MessageOnly(msg) == [line_num |-> 0, error |-> msg, input |-> <<>>]

\* the final success check of parse on the collected entries and errors
FinalCheck(r) ==
    IF r.entries = <<>> /\ r.errors = <<>>
    THEN ParseResult(FALSE, <<>>, <<MessageOnly("No valid entries found")>>)
    ELSE ParseResult(r.errors = <<>>, r.entries, r.errors)

\* UnifiedParser.parse
parse(s) ==
    IF strip(s) = <<>> THEN ParseResult(FALSE, <<>>, <<MessageOnly("Empty input")>>)
    ELSE FinalCheck(ParseLines(Split(strip(preprocess_multiline_values(s)), NL), 1))

\* the conversion of a successful result to the lists of ParsedInputResult
Converted(r) ==
    IF ~r.success THEN [done |-> TRUE, raised |-> TRUE, error |-> r.errors]
    ELSE [done |-> TRUE, raised |-> FALSE,
          time_entries |-> [i \in DOMAIN r.time_entries |->
              [columns |-> <<r.time_entries[i].number>>, value |-> r.time_entries[i].value]],
          jodi_entries |-> [i \in DOMAIN r.jodi_entries |->
              [jodi_numbers |-> <<r.jodi_entries[i].number>>, value |-> r.jodi_entries[i].value]],
          pana_entries |-> [i \in DOMAIN r.pana_entries |->
              [number |-> r.pana_entries[i].number, value |-> r.pana_entries[i].value]],
          type_entries |-> r.type_entries,
          family_pana_entries |-> r.family_pana_entries]

\* ParserAdapter.parse (MixedInputParser.parse delegates to it): raises
\* ValueError when the result is not a success, else converts the entries
ParserAdapter_parse(s) == Converted(parse(s))

(***************************************************************************)
(* SpecLine: one line made of tokens joined by one separator, an optional  *)
(* '=' and a value.  SpecBatch: up to MaxLines lines joined by newlines.   *)
(***************************************************************************)
MaxTokens == 2
MaxLines == 3

Tokens ==
    {<<"7">>, <<"0", "5">>, <<"1", "2", "8">>, <<"1", "2", "3", "4">>,
     <<"a", "b">>, <<"5", "S", "P">>}
\* the separators of the Pana, Time and Jodi grammars (separator_utils.py 28-46)
AllowedSeparators == {"/", "+", ",", "*", " ", "-", "|", ":", BlackStar, HeavyAsterisk}
Assignments == {<<"=">>, <<>>}
ValueTexts == {<<"4", "0">>, <<>>, <<"a">>}

SeqsUpTo(S, n) == UNION {[1..k -> S] : k \in 1..n}

LineShapes ==
    [kind : {"line"}, toks : SeqsUpTo(Tokens, MaxTokens), sep : AllowedSeparators,
     eq : Assignments, val : ValueTexts]

BatchLines ==
    {<<"7", "=", "9">>, <<"a", "b">>, <<"x", "=", "9">>, <<"1", "2">>, <<"=", "9">>,
     <<>>, <<"5", "0", "0", "0">>}

BatchShapes == [kind : {"batch"}, lines : SeqsUpTo(BatchLines, MaxLines)]

TokenRegion(sh) == Join(sh.toks, sh.sep)

Render(sh) ==
    IF sh.kind = "line" THEN TokenRegion(sh) \o sh.eq \o sh.val
    ELSE Join(sh.lines, NL)

InitDbVars ==
    /\ db = EmptyDb
    /\ lastOp = NoOp
    /\ threads = IdleThreads

InitLine ==
    /\ pc = [spec |-> "parse", family |-> "line"]
    /\ shape \in LineShapes
    /\ input = Render(shape)
    /\ result = NoResult
    /\ adapter = NoResult
    /\ InitDbVars

InitBatch ==
    /\ pc = [spec |-> "parse", family |-> "batch"]
    /\ shape \in BatchShapes
    /\ input = Render(shape)
    /\ result = NoResult
    /\ adapter = NoResult
    /\ InitDbVars

\* a caller runs UnifiedParser.parse on the text
Parse ==
    /\ pc.spec = "parse"
    /\ ~result.done
    /\ result' = parse(input)
    /\ UNCHANGED <<dbVars, input, shape, adapter, pc>>

\* a GUI/HTTP collaborator runs ParserAdapter.parse on the text
AdapterParse ==
    /\ pc.spec = "parse"
    /\ ~adapter.done
    /\ adapter' = ParserAdapter_parse(input)
    /\ UNCHANGED <<dbVars, input, shape, result, pc>>

NextParse == Parse \/ AdapterParse

SpecLine == InitLine /\ [][NextParse]_vars

SpecBatch == InitBatch /\ [][NextParse]_vars

(***************************************************************************)
(* SpecConc: two threads, each with its own thread-local connection, call  *)
(* update_universal_log_entry or delete_universal_log_entry.  The SELECTs  *)
(* of a call run in autocommit and see the committed store; sqlite3 opens  *)
(* the transaction at the first UPDATE/DELETE, which takes the write lock  *)
(* held until commit, so the mutation with its recomputation is one step.  *)
(***************************************************************************)
\* the store after one record was inserted and its context recomputed by an edit
StoreWith(entry_data) ==
    LET d1 == add_universal_log_entry(EmptyDb, entry_data).db
    IN recalculate_aggregated_tables_for_context(
           d1, RowContext(RowOf(d1, 1)), "none").db

ConcEntryData ==
    [customer_id : {1}, customer_name : {"A"}, entry_date : Dates, bazar : Bazars,
     number : {5}, value : {1}, entry_type : EntryTypes, source_line : SourceLines]

\* the edits and deletes the two threads issue
ConcUpdates ==
    {[bazar |-> b] : b \in Bazars} \cup {[entry_type |-> k] : k \in EntryTypes}
    \cup {[value |-> v] : v \in Values} \cup {[number |-> n] : n \in Numbers}

ConcCalls ==
    {[op |-> "update", updates |-> u] : u \in ConcUpdates}
    \cup {[op |-> "delete", updates |-> <<>>]}

InitConc ==
    /\ pc = [spec |-> "conc", family |-> "calls"]
    /\ \E entry_data \in ConcEntryData : db = StoreWith(entry_data)
    /\ lastOp = NoOp
    /\ threads = IdleThreads
    /\ InitParseVars

Done(t, ret) == [threads EXCEPT ![t] = [pc |-> "done", ret |-> ret]]

\* the call starts: SELECT ... FROM universal_log WHERE id = ?
SelectEntry(t) ==
    /\ pc.spec = "conc"
    /\ threads[t].pc = "idle"
    /\ \E call \in ConcCalls, entry_id \in 1..(db.next_id - 1) :
          LET current_entry == {r \in db.universal_log : r.id = entry_id}
          IN threads' =
                IF current_entry = {} THEN Done(t, FALSE)
                ELSE [threads EXCEPT ![t] =
                        [pc |-> IF call.op = "update" THEN "select_customer" ELSE "write",
                         op |-> call.op, entry_id |-> entry_id, updates |-> call.updates,
                         entry |-> CHOOSE r \in current_entry : TRUE,
                         correct_customer_name |-> ""]]
    /\ UNCHANGED <<db, lastOp, parseVars, pc>>

\* SELECT name FROM customers WHERE id = ? AND is_active = 1, then update_fields
SelectCustomer(t) ==
    /\ pc.spec = "conc"
    /\ threads[t].pc = "select_customer"
    /\ LET th == threads[t]
           customer == db.customers[th.entry.customer_id]
           update_fields == (DOMAIN th.updates \cap allowed_fields)
                            \cup (IF th.entry.customer_name # customer.name
                                  THEN {"customer_name"} ELSE {})
       IN threads' =
             IF ~customer.is_active \/ update_fields = {} THEN Done(t, FALSE)
             ELSE [threads EXCEPT ![t].pc = "write",
                                  ![t].correct_customer_name = customer.name]
    /\ UNCHANGED <<db, lastOp, parseVars, pc>>

\* UPDATE universal_log ... WHERE id = ?, the recomputation loop and the commit
WriteUpdate(t) ==
    /\ pc.spec = "conc"
    /\ threads[t].pc = "write"
    /\ threads[t].op = "update"
    /\ LET th == threads[t]
           rows_affected == HasRow(db, th.entry_id)
           cur == RowOf(db, th.entry_id)
           d1 == [db EXCEPT !.universal_log =
                    (@ \ {cur}) \cup
                    {UpdatedRow(cur, th.updates,
                                IF th.entry.customer_name # th.correct_customer_name
                                THEN th.correct_customer_name ELSE cur.customer_name)}]
           contexts_to_recalc ==
               UpdateContexts(th.entry, th.correct_customer_name, th.updates)
       IN IF rows_affected
          THEN \E seq \in Perms(contexts_to_recalc) :
                  /\ db' = RecalcAll(d1, seq, 1, NoFault).db
                  /\ lastOp' = [op |-> "update", id |-> th.entry_id, ret |-> TRUE,
                                fault |-> "none"]
                  /\ threads' = Done(t, TRUE)
          ELSE /\ db' = db
               /\ lastOp' = [op |-> "update", id |-> th.entry_id, ret |-> FALSE,
                             fault |-> "none"]
               /\ threads' = Done(t, FALSE)
    /\ UNCHANGED <<parseVars, pc>>

\* DELETE FROM universal_log WHERE id = ?, the recomputation and the commit
WriteDelete(t) ==
    /\ pc.spec = "conc"
    /\ threads[t].pc = "write"
    /\ threads[t].op = "delete"
    /\ LET th == threads[t]
           rows_affected == HasRow(db, th.entry_id)
           d1 == [db EXCEPT !.universal_log = {r \in @ : r.id # th.entry_id}]
       IN /\ db' = IF rows_affected
                   THEN recalculate_aggregated_tables_for_context(
                            d1, RowContext(th.entry), "none").db
                   ELSE db
          /\ lastOp' = [op |-> "delete", id |-> th.entry_id, ret |-> rows_affected,
                        fault |-> "none"]
          /\ threads' = Done(t, rows_affected)
    /\ UNCHANGED <<parseVars, pc>>

NextConc ==
    \E t \in DOMAIN threads :
        \/ SelectEntry(t)
        \/ SelectCustomer(t)
        \/ WriteUpdate(t)
        \/ WriteDelete(t)

SpecConc == InitConc /\ [][NextConc]_vars

(***************************************************************************)
(* Properties of the ledger and its rollups                                *)
(***************************************************************************)
AllContexts ==
    {Context(cid, n, dt, b, k) :
        cid \in CustomerIds, n \in Names, dt \in Dates, b \in Bazars, k \in EntryTypes}

\* the sum of field f over a set of rollup rows
SumField(S, f, k) == SumValues({[row |-> r, value |-> r[f][k]] : r \in S})

\* the ledger records of a market and date with the given kinds and number
Ledger(d, bazar, entry_date, kinds, number) ==
    {r \in d.universal_log :
        /\ r.bazar = bazar /\ r.entry_date = entry_date
        /\ r.entry_type \in kinds /\ r.number = number}

PanaSlice(d, c) ==
    {r \in d.pana_table : r.bazar = c.bazar /\ r.entry_date = c.entry_date}
JodiSlice(d, c) ==
    {r \in d.jodi_table : r.bazar = c.bazar /\ r.entry_date = c.entry_date}
TimeSlice(d, c) ==
    {r \in d.time_table : /\ r.customer_id = c.customer_id /\ r.bazar = c.bazar
                          /\ r.entry_date = c.entry_date}
SummarySlice(d, c) ==
    {r \in d.customer_bazar_summary :
        r.customer_id = c.customer_id /\ r.entry_date = c.entry_date}

\* the slice holds, per number, the sum of the matching records, and only sums > 0
PanaMatches(d, c) ==
    /\ \A r \in PanaSlice(d, c) : r.value > 0
    /\ \A n \in Numbers \cup {r.number : r \in PanaSlice(d, c)} :
          SumValues({r \in PanaSlice(d, c) : r.number = n})
              = SumValues(Ledger(d, c.bazar, c.entry_date, {"PANA"}, n))

JodiMatches(d, c) ==
    /\ \A r \in JodiSlice(d, c) : r.value > 0
    /\ \A n \in Numbers \cup {r.jodi_number : r \in JodiSlice(d, c)} :
          SumValues({r \in JodiSlice(d, c) : r.jodi_number = n})
              = SumValues(Ledger(d, c.bazar, c.entry_date, {"JODI"}, n))

TimeMatches(d, c) ==
    \A col \in 0..9 :
        SumField(TimeSlice(d, c), "cols", col)
             = SumValues({r \in Ledger(d, c.bazar, c.entry_date, TimeTypes, col) :
                             r.customer_id = c.customer_id})

SummaryMatches(d, c) ==
    \A b \in bazar_mapping :
        SumField(SummarySlice(d, c), "totals", b)
             = SumValues({r \in d.universal_log :
                             /\ r.customer_id = c.customer_id
                             /\ r.entry_date = c.entry_date /\ r.bazar = b})

\* every rollup slice of context c equals the grouped sums of the ledger
SlicesMatch(d, c) ==
    /\ c.entry_type = "PANA" => PanaMatches(d, c)
    /\ c.entry_type \in TimeTypes => TimeMatches(d, c)
    /\ c.entry_type = "JODI" => JodiMatches(d, c)
    /\ SummaryMatches(d, c)

\* the contexts record id has before (in d) and after (in e) a call
Touched(d, e, id) ==
    {RowContext(r) : r \in {x \in d.universal_log \cup e.universal_log : x.id = id}}

\* C1: after each insert, update or delete has returned, every rollup slice of
\* a context the call touched equals the grouped sums (> 0) of the ledger.
C1_RollupsEqualGroupedSums ==
    [][(lastOp'.op \in {"insert", "update", "delete"} /\ lastOp'.ret)
         => \A c \in Touched(db, db', lastOp'.id) : SlicesMatch(db', c)]_vars

\* C2: when a statement of the recomputation fails during an update or a
\* delete, the call leaves the store as it was: the ledger row and every
\* rollup row are unchanged.
C2_FailedRecomputationRollsBack ==
    [][(lastOp'.op \in {"update", "delete"} /\ lastOp'.fault \notin {"none", "mutation"})
         => db' = db]_vars

\* record r has a place in the rollup of its kind (a time column is 0..9)
HasColumn(r) == r.entry_type \in TimeTypes => r.number \in 0..9

\* the total the rollup of record r's kind holds for r's own key
KeyTotal(d, r) ==
    IF r.entry_type = "PANA"
    THEN SumValues({x \in PanaSlice(d, RowContext(r)) : x.number = r.number})
    ELSE IF r.entry_type = "JODI"
    THEN SumValues({x \in JodiSlice(d, RowContext(r)) : x.jodi_number = r.number})
    ELSE SumField(TimeSlice(d, RowContext(r)), "cols", r.number)

\* C3: when an insert returns, the rollup of the inserted record's kind already
\* counts the record's value under the record's key.
C3_InsertRecomputesInSameCall ==
    [][(lastOp'.op = "insert" /\ HasColumn(RowOf(db', lastOp'.id)))
         => KeyTotal(db', RowOf(db', lastOp'.id)) >= RowOf(db', lastOp'.id).value]_vars

\* C4: once both concurrent calls have returned, every rollup slice of every
\* context equals the grouped sums of the final ledger.
C4_ConcurrentCallsKeepRollupsExact ==
    (pc.spec = "conc" /\ \A t \in DOMAIN threads : threads[t].pc = "done")
        => \A c \in AllContexts : SlicesMatch(db, c)

\* every ledger, time and summary row of the customer carries the customer's name
InSync(d, customer_id) ==
    \A r \in d.universal_log \cup d.time_table \cup d.customer_bazar_summary :
        r.customer_id = customer_id => r.customer_name = d.customers[customer_id].name

RenameCascades ==
    (lastOp'.op = "update_customer" /\ lastOp'.ret) => InSync(db', lastOp'.id)

EditsKeepNames ==
    lastOp'.op \in {"update", "delete"}
        => \A cid \in CustomerIds : InSync(db, cid) => InSync(db', cid)

FailedRenameChangesNothing ==
    (lastOp'.op = "update_customer" /\ lastOp'.fault # "none")
        => (db' = db /\ ~lastOp'.ret)

\* C5: after a successful rename every ledger, time and summary row of the
\* customer carries the new name; updates and deletes of ledger records keep
\* it so; a rename whose cascade fails changes no row and returns False.
C5_RenameCascadesOrChangesNothing ==
    [][RenameCascades /\ EditsKeepNames /\ FailedRenameChangesNothing]_vars

\* a rename has succeeded for a customer with ledger, time and summary rows
C5_Witness ==
    /\ lastOp.op = "update_customer" /\ lastOp.ret
    /\ db.customers[lastOp.id].name # EmptyDb.customers[lastOp.id].name
    /\ \E r \in db.universal_log : r.customer_id = lastOp.id
    /\ \E r \in db.time_table : r.customer_id = lastOp.id
    /\ \E r \in db.customer_bazar_summary : r.customer_id = lastOp.id

Recomputed(d, c) == recalculate_aggregated_tables_for_context(d, c, "none").db

\* the slices of context c hold at most one row per key
OneRowPerKey(d, c) ==
    /\ \A r1, r2 \in PanaSlice(d, c) : r1.number = r2.number => r1 = r2
    /\ \A r1, r2 \in JodiSlice(d, c) : r1.jodi_number = r2.jodi_number => r1 = r2
    /\ \A r1, r2 \in TimeSlice(d, c) : r1 = r2
    /\ \A r1, r2 \in SummarySlice(d, c) : r1 = r2

\* C6: from any state of the rollup tables, recomputing a context twice with no
\* ledger change in between leaves the rows that recomputing it once leaves,
\* with at most one row per key.
C6_RecomputationIdempotent ==
    \A c \in AllContexts :
        /\ Recomputed(Recomputed(db, c), c) = Recomputed(db, c)
        /\ OneRowPerKey(Recomputed(db, c), c)

\* a slice an edit has recomputed is stale again after a later insert:
\* recomputing its context replaces the rows it holds
C6_Witness ==
    \E c \in AllContexts :
        /\ PanaSlice(db, c) # {}
        /\ PanaSlice(Recomputed(db, c), c) # {}
        /\ PanaSlice(Recomputed(db, c), c) # PanaSlice(db, c)

(***************************************************************************)
(* Properties of the parser                                                *)
(***************************************************************************)
NoEntries(r) ==
    /\ r.entries = <<>> /\ r.time_entries = <<>> /\ r.jodi_entries = <<>>
    /\ r.pana_entries = <<>> /\ r.type_entries = <<>> /\ r.family_pana_entries = <<>>

ValidToken(tok) == isdigit(tok) /\ Len(tok) \in 1..3

KindOfLength(n) == IF n = 1 THEN "time" ELSE IF n = 2 THEN "jodi" ELSE "pana"

\* one entry per token, in input order, of the kind of the token's length
EntriesOfTokens(toks, v) ==
    [i \in DOMAIN toks |-> ParsedEntry(int(toks[i]), v, KindOfLength(Len(toks[i])))]

\* C7: tokens of 1 to 3 digits joined by any allowed separator and followed by
\* =V parse to exactly one entry per token, in order, of the kind of the token's
\* length and with value V, whichever separator joins them.
C7_SeparatorInvariance ==
    (/\ result.done /\ shape.kind = "line"
     /\ \A i \in DOMAIN shape.toks : ValidToken(shape.toks[i])
     /\ shape.eq = <<"=">> /\ isdigit(shape.val))
        => /\ result.entries = EntriesOfTokens(shape.toks, int(shape.val))
           /\ result.type_entries = <<>> /\ result.family_pana_entries = <<>>
           /\ result.errors = <<>>

\* C8: the entry point the GUI/HTTP collaborators call does not raise on an
\* input that is not structurally empty, even when lines of it are malformed.
C8_AdapterNeverRaisesOnMalformedLines ==
    (adapter.done /\ strip(input) # <<>>) => ~adapter.raised

RECURSIVE IsSubsequence(_, _)
IsSubsequence(a, b) ==
    IF a = <<>> THEN TRUE
    ELSE IF b = <<>> THEN FALSE
    ELSE IF a[1] = b[1] THEN IsSubsequence(Tail(a), Tail(b))
    ELSE IsSubsequence(a, Tail(b))

RECURSIVE EntriesOfGoodLines(_)
\* the entries of the lines that parse successfully when given alone, in order
EntriesOfGoodLines(lines) ==
    IF lines = <<>> THEN <<>>
    ELSE (IF parse(lines[1]).success THEN parse(lines[1]).entries ELSE <<>>)
         \o EntriesOfGoodLines(Tail(lines))

\* C9: every line that parses successfully alone contributes the same entries
\* inside a batch, whatever malformed lines precede or follow it.
C9_ErrorsAreLineLocal ==
    (result.done /\ shape.kind = "batch")
        => IsSubsequence(EntriesOfGoodLines(shape.lines), result.entries)

NoDigitLeadingToken(sh) == \A i \in DOMAIN sh.toks : ~IsDigit(sh.toks[i][1])
NoValue(sh) == sh.eq = <<>> \/ FirstDigitRun(sh.val) = <<>>
LongToken(sh) == \E i \in DOMAIN sh.toks : Len(LeadingDigits(sh.toks[i])) >= 4
TypeTableToken(sh) == \E i \in DOMAIN sh.toks : FindTypeMatches(sh.toks[i]) # <<>>

\* C10: an invalid line (no token starting with a digit, no value, or a token
\* of 4 or more digits) yields no entry of any kind and a non-empty error
\* list.  Stated for the lines without a type-table token, whose other
\* tokens are ignored by design.
C10_InvalidLineYieldsNothing ==
    (/\ result.done /\ shape.kind = "line" /\ ~TypeTableToken(shape)
     /\ (NoDigitLeadingToken(shape) \/ NoValue(shape) \/ LongToken(shape)))
        => (NoEntries(result) /\ result.errors # <<>>)

(***************************************************************************)
(* SpecJoin: a token region X and a value V written on one line (X=V) or   *)
(* on two lines (X, then =V or V).                                         *)
(***************************************************************************)
\* what may follow the last token of the region (the region is the text left
\* of '=' after strip(), so it ends in no whitespace)
RegionTails == {<<>>, <<",">>, <<"/">>}
DigitValues == {<<"4">>, <<"4", "0">>, <<"4", "0", "0">>, <<"4", "0", "0", "0">>}
JoinForms == {"one_line", "eq_line", "bare_line"}

JoinShapes ==
    [kind : {"join"}, toks : SeqsUpTo(Tokens, MaxTokens), sep : AllowedSeparators,
     tail : RegionTails, val : DigitValues, form : JoinForms]

RenderJoin(sh) ==
    LET X == Join(sh.toks, sh.sep) \o sh.tail
    IN IF sh.form = "one_line" THEN X \o <<"=">> \o sh.val
       ELSE IF sh.form = "eq_line" THEN X \o <<NL, "=">> \o sh.val
       ELSE X \o <<NL>> \o sh.val

InitJoin ==
    /\ pc = [spec |-> "parse", family |-> "join"]
    /\ shape \in JoinShapes
    /\ input = RenderJoin(shape)
    /\ result = NoResult
    /\ adapter = NoResult
    /\ InitDbVars

SpecJoin == InitJoin /\ [][NextParse]_vars

\* C11: the two-line inputs X newline =V and X newline V parse to the result
\* (entries of every kind, errors, success) of the one-line input X=V.
C11_MultilineReassembly ==
    (result.done /\ shape.kind = "join")
        => result = parse(RenderJoin([shape EXCEPT !.form = "one_line"]))

\* a two-line input whose value line is a bare number of 1 to 3 digits was
\* joined and parsed to entries
C11_Witness ==
    /\ result.done /\ shape.kind = "join" /\ shape.form = "bare_line"
    /\ Len(shape.val) <= 3 /\ Len(shape.toks) = 2
    /\ Len(result.entries) = 2

(***************************************************************************)
(* SpecEquals: a line whose token region and value are joined by '=' or by *)
(* '=='.                                                                   *)
(***************************************************************************)
ZeroValues == {<<"0">>, <<"0", "0">>}

EqualsShapes ==
    [kind : {"equals"}, toks : SeqsUpTo(Tokens, MaxTokens), sep : AllowedSeparators,
     eqs : {<<"=">>, <<"=", "=">>}, val : ValueTexts \cup DigitValues \cup ZeroValues]

RenderEquals(sh) == Join(sh.toks, sh.sep) \o sh.eqs \o sh.val

InitEquals ==
    /\ pc = [spec |-> "parse", family |-> "equals"]
    /\ shape \in EqualsShapes
    /\ input = RenderEquals(shape)
    /\ result = NoResult
    /\ adapter = NoResult
    /\ InitDbVars

SpecEquals == InitEquals /\ [][NextParse]_vars

\* a result without the input text that its error messages echo
Outcome(r) ==
    [r EXCEPT !.errors = [i \in DOMAIN r.errors |->
                             [line_num |-> r.errors[i].line_num, error |-> r.errors[i].error]]]

AllEntries(r) == r.entries \o r.type_entries \o r.family_pana_entries

\* C13: every ParsedEntry, TypeTableEntry and FamilyPanaEntry returned by parse
\* has value > 0, and a line whose value evaluates to 0 gives an error and no
\* entry.
C13_ValuesArePositive ==
    (result.done /\ shape.kind = "equals")
        => /\ \A i \in DOMAIN AllEntries(result) : AllEntries(result)[i].value > 0
           /\ (isdigit(shape.val) /\ int(shape.val) = 0)
                 => (NoEntries(result) /\ result.errors # <<>>)

(***************************************************************************)
(* SpecTypeTable: a line of type-table tokens (a column number and one of  *)
(* the suffixes SP, DP, DPT, CP in some letter case), possibly mixed with  *)
(* a plain number, joined by one separator and followed by =40.            *)
(***************************************************************************)
ColumnTexts ==
    {<<"0">>, <<"1">>, <<"5">>, <<"1", "0">>, <<"1", "1">>, <<"1", "5">>,
     <<"9", "9">>, <<"1", "0", "0">>}
SuffixTexts ==
    {<<"S", "P">>, <<"s", "p">>, <<"S", "p">>, <<"D", "P">>, <<"d", "p">>,
     <<"D", "P", "T">>, <<"d", "p", "t">>, <<"D", "p", "T">>, <<"C", "P">>, <<"c", "p">>}
TypeTokens ==
    [col : ColumnTexts, suf : SuffixTexts] \cup {[col |-> <<"1", "2">>, suf |-> <<>>]}
TypeSeparators == {"/", " ", BlackStar}

TypeShapes ==
    [kind : {"type"}, toks : SeqsUpTo(TypeTokens, MaxTokens), sep : TypeSeparators]

RenderType(sh) ==
    Join([i \in DOMAIN sh.toks |-> sh.toks[i].col \o sh.toks[i].suf], sh.sep)
        \o <<"=", "4", "0">>

InitType ==
    /\ pc = [spec |-> "parse", family |-> "type"]
    /\ shape \in TypeShapes
    /\ input = RenderType(shape)
    /\ result = NoResult
    /\ adapter = NoResult
    /\ InitDbVars

SpecTypeTable == InitType /\ [][NextParse]_vars

\* the column ranges of the tables
InTableRange(table, column) ==
    IF table \in {<<"S", "P">>, <<"D", "P">>, <<"D", "P", "T">>} THEN column \in 1..10
    ELSE IF table = <<"C", "P">> THEN column = 0 \/ column \in 11..99
    ELSE FALSE

TypedTokens(sh) == SelectSeq(sh.toks, LAMBDA t : t.suf # <<>>)

\* one entry per type-table token: its column, and its suffix in upper case
EntriesOfTypeTokens(sh, v) ==
    [i \in DOMAIN TypedTokens(sh) |->
        TypeTableEntry(int(TypedTokens(sh)[i].col), upper(TypedTokens(sh)[i].suf), v)]

SomeColumnOutOfRange(sh) ==
    \E i \in DOMAIN sh.toks :
        sh.toks[i].suf # <<>> /\ ~InTableRange(upper(sh.toks[i].suf), int(sh.toks[i].col))

\* C14: every TypeTableEntry has a column inside its table's range and the
\* table written in its token (any letter case, DPT kept apart from DP); a
\* line with an out-of-range type-table token gives an error and no
\* TypeTableEntry, and a line without one gives one entry per token, in order.
C14_TypeTableEntriesInRange ==
    (result.done /\ shape.kind = "type")
        => /\ \A i \in DOMAIN result.type_entries :
                InTableRange(result.type_entries[i].table_type, result.type_entries[i].column)
           /\ IF SomeColumnOutOfRange(shape)
              THEN result.type_entries = <<>> /\ result.errors # <<>>
              ELSE result.type_entries = EntriesOfTypeTokens(shape, 40)

\* a line with a DPT token in mixed case and a CP token gave both entries
C14_Witness ==
    /\ result.done /\ shape.kind = "type"
    /\ Len(result.type_entries) = 2
    /\ result.type_entries[1].table_type = <<"D", "P", "T">>
    /\ shape.toks[1].suf = <<"D", "p", "T">>
    /\ result.type_entries[2] = TypeTableEntry(15, <<"C", "P">>, 40)

(***************************************************************************)
(* SpecFamily: a line made of a 3-digit reference, the suffix family in    *)
(* some letter case, and =V.                                               *)
(***************************************************************************)
ReferenceTexts ==
    {<<"6", "7", "8">>, <<"1", "0", "0">>, <<"9", "9", "9">>, <<"1", "2", "8">>,
     <<"0", "9", "9">>, <<"0", "0", "0">>}
FamilyTexts ==
    {<<"f", "a", "m", "i", "l", "y">>, <<"F", "A", "M", "I", "L", "Y">>,
     <<"F", "a", "m", "i", "l", "y">>, <<"F", "a", "M", "i", "L", "y">>,
     <<"f", "a", "m", "i", "l", "Y">>}
FamilyValues == {<<"4", "0">>, <<"2", "0", "0">>}

FamilyShapes ==
    [kind : {"family"}, ref : ReferenceTexts, suf : FamilyTexts, val : FamilyValues]

RenderFamily(sh) == sh.ref \o sh.suf \o <<"=">> \o sh.val

InitFamily ==
    /\ pc = [spec |-> "parse", family |-> "family"]
    /\ shape \in FamilyShapes
    /\ input = RenderFamily(shape)
    /\ result = NoResult
    /\ adapter = NoResult
    /\ InitDbVars

SpecFamily == InitFamily /\ [][NextParse]_vars

\* C15: a line R<family>=V, the suffix in any letter case, yields exactly one
\* FamilyPanaEntry(R, V) and no ParsedEntry when R is in 100..999, and an
\* error and no entry of any kind when R is below 100.
C15_FamilySuffixAnyCase ==
    (result.done /\ shape.kind = "family")
        => IF int(shape.ref) >= 100
           THEN /\ result.family_pana_entries
                      = <<FamilyPanaEntry(int(shape.ref), int(shape.val))>>
                /\ result.entries = <<>>
           ELSE NoEntries(result) /\ result.errors # <<>>

(***************************************************************************)
(* The grammar classifier: UnifiedSeparatorHandler (separator_utils.py)    *)
(* and PatternDetector.detect_pattern_type (pattern_detector.py).          *)
(* A score is a Python float built from tenths and from ratios of counts;  *)
(* the model keeps the exact sum, as a whole number of units of 1/600.     *)
(* The float sum differs from the exact one by a rounding error in its     *)
(* last bits (0.4 + 0.2 is 0.6000000000000001), so two scores with the     *)
(* same exact sum, or a score and a threshold, may compare either way:     *)
(* the model leaves these comparisons open.                                *)
(***************************************************************************)
Times == "U+00D7"
DotOperator == "U+22C5"
MiddleDot == "U+00B7"

\* the float 1.0 in units of 1/600
One == 600
\* the float n/10
Tenths(n) == (n * One) \div 10

RECURSIVE DigitRuns(_)
\* re.findall(r'\d+', text)
DigitRuns(s) ==
    IF s = <<>> THEN <<>>
    ELSE IF IsDigit(s[1])
         THEN <<LeadingDigits(s)>> \o DigitRuns(SubSeq(s, Len(LeadingDigits(s)) + 1, Len(s)))
    ELSE DigitRuns(Tail(s))

SEPARATOR_CONFIG ==
    [direct |-> [primary |-> <<"=">>, secondary |-> <<>>,
                 number_length |-> {1, 2, 3}, min_numbers |-> 2],
     pana |-> [primary |-> <<"/", "+", ",", "*", " ">>,
               secondary |-> <<BlackStar, HeavyAsterisk, "-", "|", ":">>,
               number_length |-> {3}, min_numbers |-> 2],
     time |-> [primary |-> <<" ", ",", "-">>, secondary |-> <<"|", ":", "+", "/">>,
               number_length |-> {1, 2}, min_numbers |-> 1],
     jodi |-> [primary |-> <<"-", ":", "|">>, secondary |-> <<" ", ",", "+", "/">>,
               number_length |-> {2}, min_numbers |-> 2],
     multiplication |-> [primary |-> <<"x", "*", Times, "X">>,
                         secondary |-> <<DotOperator, MiddleDot>>,
                         number_length |-> {2}, min_numbers |-> 1]]

\* the keys of SEPARATOR_CONFIG in insertion order
ParserTypes == <<"direct", "pana", "time", "jodi", "multiplication">>

\* the number of elements of seq that satisfy P
CountIf(seq, P(_)) == Cardinality({i \in DOMAIN seq : P(seq[i])})

\* re.match(r'^\s*\d+([^\d=]+\d+)+\s*=\s*\d+\s*$', text)
is_multiple_assignment(text) ==
    LET parts == Split(text, "=")
    IN /\ Len(parts) = 2
       /\ isdigit(strip(parts[2]))
       /\ strip(parts[1]) # <<>>
       /\ IsDigit(strip(parts[1])[1])
       /\ IsDigit(strip(parts[1])[Len(strip(parts[1]))])
       /\ Len(DigitRuns(parts[1])) >= 2

\* re.match(r'^\s*\d{1,3}\s*=\s*\d+\s*$', text)
is_direct_assignment(text) ==
    LET parts == Split(text, "=")
    IN /\ Len(parts) = 2
       /\ isdigit(strip(parts[1])) /\ Len(strip(parts[1])) <= 3
       /\ isdigit(strip(parts[2]))

\* the part of the score given to assignments of several numbers
MultipleAssignmentScore(text, parser_type, numbers) ==
    LET n == Len(numbers)
        firsts == SubSeq(numbers, 1, n - 1)
        three_digit_count == CountIf(firsts, LAMBDA num : Len(num) = 3)
        one_digit_count == CountIf(firsts, LAMBDA num : Len(num) = 1)
        two_digit_count == CountIf(firsts, LAMBDA num : Len(num) = 2)
        valid_time_nums ==
            CountIf(firsts, LAMBDA num : Len(num) = 2 /\ 10 <= int(num) /\ int(num) <= 19)
        small_sequence_boost == IF n <= 3 THEN Tenths(3) ELSE 0
        has_jodi_sep == \E sep \in {"-", ":", "|"} : Contains(text, sep)
        has_non_jodi_sep == \E sep \in {"/", "+", ",", "*"} : Contains(text, sep)
    IN IF ~is_multiple_assignment(text) THEN 0
       ELSE IF parser_type = "pana"
       THEN (IF three_digit_count > 0
             THEN (Tenths(3) * three_digit_count) \div (n - 1) ELSE 0)
       ELSE IF parser_type = "time"
       THEN (IF one_digit_count > 0
             THEN (Tenths(4) * one_digit_count) \div (n - 1)
             ELSE IF two_digit_count > 0
             THEN (IF valid_time_nums > 0
                   THEN ((Tenths(3) + small_sequence_boost) * valid_time_nums) \div (n - 1)
                   ELSE ((Tenths(2) + small_sequence_boost) * two_digit_count) \div (n - 1))
             ELSE 0)
       ELSE IF parser_type = "jodi"
       THEN (IF two_digit_count > 0 /\ has_jodi_sep /\ ~has_non_jodi_sep
             THEN (IF n <= 3 THEN (Tenths(2) * two_digit_count) \div (n - 1)
                   ELSE (Tenths(4) * two_digit_count) \div (n - 1))
             ELSE IF has_non_jodi_sep THEN 0 - Tenths(5)
             ELSE 0)
       ELSE 0

\* the part of the score given to number=value lines
DirectAssignmentScore(text, parser_type, numbers) ==
    IF ~is_direct_assignment(text) THEN 0
    ELSE IF parser_type \in {"pana", "jodi"} /\ Len(numbers) = 2 THEN 0 - Tenths(5)
    ELSE IF /\ parser_type = "multiplication" /\ Len(numbers) = 2
            /\ \A c \in {"x", "*", Times} : ~Contains(text, c)
    THEN 0 - Tenths(3)
    ELSE 0

\* 40% weight for the share of numbers with a length the type expects
LengthScore(config, numbers) ==
    LET length_match_score == CountIf(numbers, LAMBDA num : Len(num) \in config.number_length)
    IN (length_match_score * Tenths(4)) \div Len(numbers)

\* the first separator of the type that occurs in the text (0 when none does)
FirstSeparator(config, text) ==
    LET all_seps == config.primary \o config.secondary
        found == {i \in DOMAIN all_seps : Contains(text, all_seps[i])}
    IN IF found = {} THEN 0 ELSE CHOOSE i \in found : \A j \in found : i <= j

SeparatorScore(config, text) ==
    LET i == FirstSeparator(config, text)
    IN IF i = 0 THEN 0 ELSE IF i <= Len(config.primary) THEN Tenths(3) ELSE Tenths(1)

Min(a, b) == IF a <= b THEN a ELSE b

\* the special logic for specific types
SpecificScore(text, parser_type, numbers) ==
    IF parser_type = "direct"
    THEN (IF Len(numbers) = 2 /\ is_direct_assignment(text) THEN Tenths(3)
          ELSE IF Len(numbers) # 2 THEN 0 - Tenths(5) ELSE 0)
    ELSE IF parser_type = "multiplication"
    THEN (IF Len(numbers) = 2 THEN Tenths(1) ELSE 0)
    ELSE IF parser_type = "pana"
    THEN (IF CountIf(numbers, LAMBDA num : Len(num) = 3) >= 2 THEN Tenths(1) ELSE 0)
    ELSE IF parser_type = "time"
    THEN (IF CountIf(numbers, LAMBDA num : Len(num) = 1 /\ int(num) <= 9) > 0
          THEN Tenths(1) ELSE 0)
    ELSE (IF CountIf(numbers, LAMBDA num : Len(num) = 2) >= 2 THEN Tenths(1) ELSE 0)

\* the sum _score_parser_type returns once the numbers of the text are known
ScoreOf(text, parser_type, config, numbers) ==
    MultipleAssignmentScore(text, parser_type, numbers)
    + DirectAssignmentScore(text, parser_type, numbers)
    + LengthScore(config, numbers)
    + Min(SeparatorScore(config, text), Tenths(3))
    + (IF Len(numbers) >= config.min_numbers THEN Tenths(2) ELSE 0)
    + SpecificScore(text, parser_type, numbers)

\* _score_parser_type
score_parser_type(text, parser_type) ==
    IF DigitRuns(text) = <<>> THEN 0
    ELSE ScoreOf(text, parser_type, SEPARATOR_CONFIG[parser_type], DigitRuns(text))

Scores(text) == [t \in Range(ParserTypes) |-> score_parser_type(text, t)]

\* max(scores, key=scores.get): the types whose exact score is the highest;
\* the float scores decide which of them max returns
BestTypes(text) ==
    {t \in Range(ParserTypes) : \A o \in Range(ParserTypes) : Scores(text)[o] <= Scores(text)[t]}

\* found_separators of _score_parser_type
found_separators(text, parser_type) ==
    LET config == SEPARATOR_CONFIG[parser_type]
        i == FirstSeparator(config, text)
    IN IF DigitRuns(text) = <<>> \/ i = 0 THEN <<>>
       ELSE <<(config.primary \o config.secondary)[i]>>

\* detect_separator_type: the best type, its separators and its score, when
\* max returns best_type
detect_separator_type(text, best_type) ==
    [parser_type |-> best_type,
     separators |-> found_separators(text, best_type),
     confidence |-> score_parser_type(text, best_type)]

\* the separators of the PANA_TABLE and TIME_DIRECT patterns
PatternSeparators == {"/", "+", " ", NL, ",", "*", BlackStar, HeavyAsterisk, "-", "|", ":"}
\* the separators of the JODI_TABLE pattern
JodiSeparators == {"-", ":", ",", "|", " ", NL, "/", "+"}

From(s, i) == SubSeq(s, i, Len(s))
DigitsAt(s, i, n) == i + n - 1 <= Len(s) /\ \A k \in i..(i + n - 1) : IsDigit(s[k])
\* the text starts, after optional whitespace, with c
StartsAfterSpace(s, c) == StartsWith(lstrip(s), c)
\* the text starts, after optional whitespace, with a digit
DigitAfterSpace(s) == lstrip(s) # <<>> /\ IsDigit(lstrip(s)[1])
\* 'rs' occurs in the text in some letter case
ContainsRs(s) == ContainsPair(upper(s), "R", "S")

RECURSIVE DropDots(_, _)
\* the text after at most n leading dots
DropDots(s, n) == IF n > 0 /\ StartsWith(s, ".") THEN DropDots(Tail(s), n - 1) ELSE s

\* \s*(Rs\.{0,3}\s*\.?\s*)?(\d+)\s*$ matches the whole of s; ignore_case is
\* the re.IGNORECASE flag
IsValueTail(s, ignore_case) ==
    LET t == strip(s)
        marked == /\ Len(t) >= 2
                  /\ IF ignore_case THEN upper(SubSeq(t, 1, 2)) = <<"R", "S">>
                     ELSE SubSeq(t, 1, 2) = <<"R", "s">>
        after == lstrip(DropDots(lstrip(DropDots(From(t, 3), 3)), 1))
    IN isdigit(t) \/ (marked /\ isdigit(after))

\* PATTERNS[TYPE_TABLE], re.search with re.IGNORECASE:
\* (\d+)(SP|DP|CP)\s*=\s*\d+
SearchTypeTable(s) ==
    \E i \in DOMAIN s :
        /\ IsDigit(s[i]) /\ i + 2 <= Len(s)
        /\ upper(SubSeq(s, i + 1, i + 2)) \in {<<"S", "P">>, <<"D", "P">>, <<"C", "P">>}
        /\ StartsAfterSpace(From(s, i + 3), "=")
        /\ DigitAfterSpace(Tail(lstrip(From(s, i + 3))))

\* PATTERNS[JODI_TABLE], re.search: two digits, a separator, two digits, then
\* separators and digits up to =<digit> or up to the end of the line
SearchJodiTable(s) ==
    \E i \in DOMAIN s :
        /\ DigitsAt(s, i, 2) /\ i + 4 <= Len(s) /\ s[i + 2] \in JodiSeparators
        /\ DigitsAt(s, i + 3, 2)
        /\ \E q \in (i + 5)..(Len(s) + 1) :
              /\ \A k \in (i + 5)..(q - 1) : s[k] \in JodiSeparators \/ IsDigit(s[k])
              /\ \/ q = Len(s) + 1
                 \/ (s[q] = "=" /\ q + 1 <= Len(s) /\ IsDigit(s[q + 1]))

RECURSIVE SkipSeparators(_)
\* the text after its leading run of pattern separators
SkipSeparators(s) ==
    IF s # <<>> /\ s[1] \in PatternSeparators THEN SkipSeparators(Tail(s)) ELSE s

RECURSIVE PanaGroupsToEnd(_)
\* (\d{3}(sep)+)*\d{3}(sep)*$ matches the whole of s
PanaGroupsToEnd(s) ==
    /\ DigitsAt(s, 1, 3)
    /\ \/ SkipSeparators(From(s, 4)) = <<>>
       \/ /\ Len(s) >= 4 /\ s[4] \in PatternSeparators
          /\ PanaGroupsToEnd(SkipSeparators(From(s, 4)))

\* PATTERNS[PANA_TABLE], re.search with re.IGNORECASE: its alternatives in order
SearchPanaTable(s) ==
    \/ \E i \in DOMAIN s :
          /\ DigitsAt(s, i, 3) /\ i + 3 <= Len(s) /\ s[i + 3] \in PatternSeparators
          /\ \E q \in (i + 4)..Len(s) :
                s[q] = "=" /\ \E k \in (q + 1)..Len(s) : IsDigit(s[k])
    \/ \E i \in DOMAIN s :
          /\ DigitsAt(s, i, 3)
          /\ StartsAfterSpace(From(s, i + 3), "=")
          /\ DigitAfterSpace(Tail(lstrip(From(s, i + 3))))
    \/ \E i \in DOMAIN s :
          /\ s[i] = ","
          /\ StartsAfterSpace(From(s, i + 1), "=")
          /\ ContainsRs(Tail(lstrip(From(s, i + 1))))
    \/ /\ DigitsAt(s, 1, 3) /\ Len(s) >= 4 /\ s[4] \in PatternSeparators
       /\ DigitsAt(SkipSeparators(From(s, 4)), 1, 3)
    \/ StartsAfterSpace(s, "=") /\ ContainsRs(Tail(lstrip(s)))
    \/ \E c \in {"/", "+", " ", NL, ",", "*", BlackStar, HeavyAsterisk, "-", "|"} :
          Contains(s, c)
    \/ \E i \in DOMAIN s : s[i] = ":" /\ strip(From(s, i + 1)) = <<>>
    \/ \E i \in DOMAIN s :
          /\ DigitsAt(s, i, 3) /\ i + 3 <= Len(s) /\ s[i + 3] \in PatternSeparators
          /\ PanaGroupsToEnd(SkipSeparators(From(s, i + 3)))
    \/ StartsAfterSpace(s, "=") /\ isdigit(strip(Tail(lstrip(s))))

\* ^((\d|sep)+)\s*={1,2}\s*(Rs...)?(\d+)\s*$: the numbers part when the line
\* has this form, <<>> when it has not
MultiColumnNumbers(s, ignore_case) ==
    LET parts == Split(s, "=")
        one == Len(parts) = 2
        two == Len(parts) = 3 /\ parts[2] = <<>>
        left == parts[1]
    IN IF /\ one \/ two
          /\ left # <<>>
          /\ \A k \in DOMAIN left : IsDigit(left[k]) \/ left[k] \in PatternSeparators
          /\ IsValueTail(parts[Len(parts)], ignore_case)
       THEN left
       ELSE <<>>

\* PATTERNS[TIME_DIRECT], re.search with re.IGNORECASE
SearchTimeDirect(s) == MultiColumnNumbers(s, TRUE) # <<>> /\ rstrip(s) = s

\* _has_universal_separators
has_universal_separators(line) ==
    \E sep \in {",", "-", "|", ":", "/", "+", "*", BlackStar, HeavyAsterisk} :
        Contains(line, sep)

\* the final regex fallback of _fallback_number_classification
RegexFallback(line) ==
    IF SearchJodiTable(line) THEN "jodi_table"
    ELSE IF SearchPanaTable(line) THEN "pana_table"
    ELSE IF SearchTimeDirect(line) THEN "time_direct"
    ELSE "unknown"

\* len(str(number)) for the int of a run of at most 4 digits
DecimalLength(number) ==
    IF number < 10 THEN 1 ELSE IF number < 100 THEN 2 ELSE IF number < 1000 THEN 3 ELSE 4

\* re.match(simple_number_pattern, line):
\* ^\s*(\d{1,4})\s*=\s*(Rs\.{0,3}\s*\.?\s*)?(\d+)\s*$
IsSimpleNumber(line) ==
    LET parts == Split(line, "=")
    IN /\ Len(parts) = 2
       /\ isdigit(strip(parts[1])) /\ Len(strip(parts[1])) <= 4
       /\ IsValueTail(parts[2], FALSE)

\* the classification of a line of the form number=value ("" when the
\* branch returns nothing)
SimpleNumberType(line, numbers) ==
    LET number == int(numbers[1])
        value == int(numbers[Len(numbers)])
    IN IF DecimalLength(number) = 1
       THEN (IF has_universal_separators(line) THEN "time_direct"
             ELSE IF value >= 10000 THEN "direct_number"
             ELSE "time_direct")
       ELSE IF DecimalLength(number) = 2
       THEN (IF has_universal_separators(line) THEN "time_direct" ELSE "direct_number")
       ELSE IF DecimalLength(number) = 3
       THEN (IF Len(numbers) = 1 THEN "direct_number" ELSE "pana_table")
       ELSE ""

\* the classification by the lengths of the numbers before the assignment
\* ("" when there are fewer than two)
MultiColumnType(extracted_numbers) ==
    LET n == Len(extracted_numbers)
        count(k) == CountIf(extracted_numbers, LAMBDA num : Len(num) = k)
    IN IF n <= 1 THEN ""
       ELSE IF count(1) = n THEN "time_direct"
       ELSE IF count(2) = n THEN "jodi_table"
       ELSE IF count(3) = n THEN "pana_table"
       ELSE IF 2 * count(1) >= n THEN "time_direct"
       ELSE IF 2 * count(3) >= n THEN "pana_table"
       ELSE "time_direct"

\* the first of the candidate answers that is not ""
FirstAnswer(a, b, c) == IF a # "" THEN a ELSE IF b # "" THEN b ELSE c

\* _fallback_number_classification
fallback_number_classification(line) ==
    IF DigitRuns(line) = <<>> THEN "unknown"
    ELSE IF Contains(line, "=")
    THEN FirstAnswer(
             IF IsSimpleNumber(line) THEN SimpleNumberType(line, DigitRuns(line)) ELSE "",
             MultiColumnType(DigitRuns(MultiColumnNumbers(line, FALSE))),
             RegexFallback(line))
    ELSE IF Len(DigitRuns(line)) >= 2
            /\ \A i \in DOMAIN DigitRuns(line) : Len(DigitRuns(line)[i]) = 2
    THEN "jodi_table"
    ELSE IF Len(DigitRuns(line)) >= 2
            /\ \A i \in DOMAIN DigitRuns(line) : Len(DigitRuns(line)[i]) = 3
    THEN "pana_table"
    ELSE RegexFallback(line)

type_mapping ==
    [direct |-> "direct_number", pana |-> "pana_table", time |-> "time_direct",
     jodi |-> "jodi_table", multiplication |-> "time_multiply"]

\* the use detect_pattern_type makes of the separator handler's answer;
\* rounded_up: the float sum of a score that is exactly 0.6 exceeds 0.6
MappedOrFallback(line, detected, rounded_up) ==
    IF detected.confidence > Tenths(6) \/ (detected.confidence = Tenths(6) /\ rounded_up)
    THEN type_mapping[detected.parser_type]
    ELSE fallback_number_classification(line)

\* PatternDetector.detect_pattern_type
detect_pattern_type(raw, best_type, rounded_up) ==
    IF strip(raw) = <<>> THEN "unknown"
    ELSE IF SearchTypeTable(strip(raw)) THEN "type_table"
    ELSE MappedOrFallback(strip(raw), detect_separator_type(strip(raw), best_type),
                          rounded_up)

(***************************************************************************)
(* SpecClassify: one line of plain, type-table and multiplication tokens   *)
(* given to PatternDetector.detect_pattern_type and to                     *)
(* UnifiedSeparatorHandler.detect_separator_type.                          *)
(***************************************************************************)
ClassifyTokens ==
    {<<"7">>, <<"0", "5">>, <<"1", "2">>, <<"1", "2", "8">>, <<"1", "2", "3", "4">>,
     <<"5", "S", "P">>, <<"5", "D", "P", "T">>, <<"1", "5", "c", "p">>,
     <<"3", "8", "x", "7", "0", "0">>, <<"3", "8", "*", "7">>, <<"3", "8", Times, "7", "0", "0">>}
ClassifySeparators == {"/", " ", "-", ",", ":"}
ClassifyValues ==
    {<<>>, <<"=", "4", "0">>, <<"=", "R", "s", "4", "0">>, <<"=", "5", "0", "0", "0", "0">>}

ClassifyShapes ==
    [kind : {"classify"}, toks : SeqsUpTo(ClassifyTokens, MaxTokens),
     sep : ClassifySeparators, val : ClassifyValues]

RenderClassify(sh) == Join(sh.toks, sh.sep) \o sh.val

InitClassify ==
    /\ pc = [spec |-> "classify", family |-> "line"]
    /\ shape \in ClassifyShapes
    /\ input = RenderClassify(shape)
    /\ result = NoResult
    /\ adapter = NoResult
    /\ InitDbVars

\* a caller classifies the line
Classify ==
    /\ pc.spec = "classify"
    /\ ~result.done
    /\ \E best_type \in BestTypes(strip(input)), rounded_up \in BOOLEAN :
          result' = [done |-> TRUE,
                     pattern_type |-> detect_pattern_type(input, best_type, rounded_up)]
    /\ UNCHANGED <<dbVars, input, shape, adapter, pc>>

\* a caller asks the separator handler for the type of the line
DetectSeparatorType ==
    /\ pc.spec = "classify"
    /\ ~adapter.done
    /\ \E best_type \in BestTypes(input) :
          adapter' = [done |-> TRUE, detected |-> detect_separator_type(input, best_type)]
    /\ UNCHANGED <<dbVars, input, shape, result, pc>>

NextClassify == Classify \/ DetectSeparatorType

SpecClassify == InitClassify /\ [][NextClassify]_vars

\* the token holds digits followed by SP, DP, DPT or CP
IsTypeTableToken(tok) == FindTypeMatches(tok) # <<>>

\* the token holds two digits, a multiplication sign and a digit
IsMultiplicationToken(tok) ==
    \E i \in DOMAIN tok :
        /\ DigitsAt(tok, i, 2) /\ i + 3 <= Len(tok)
        /\ tok[i + 2] \in {"x", "*", Times, "X", DotOperator, MiddleDot}
        /\ IsDigit(tok[i + 3])

\* C16: a line that contains a type-table token is classified as type table,
\* and a line that contains a multiplication token (and no type-table token)
\* as multiplication, whatever the rest of the line holds.
C16_FastPathClassification ==
    (result.done /\ shape.kind = "classify")
        => IF \E i \in DOMAIN shape.toks : IsTypeTableToken(shape.toks[i])
           THEN result.pattern_type = "type_table"
           ELSE (\E i \in DOMAIN shape.toks : IsMultiplicationToken(shape.toks[i]))
                   => result.pattern_type = "time_multiply"

\* C17: the confidence detect_separator_type returns lies in [0, 1].
C17_ConfidenceInUnitInterval ==
    (adapter.done /\ shape.kind = "classify")
        => (0 <= adapter.detected.confidence /\ adapter.detected.confidence <= One)

(***************************************************************************)
(* The family lookup (family_pana_table.py).                               *)
(***************************************************************************)
\* group1 with 128 typed a second time, in the place of 129
group1_with_repeated_number ==
    <<<<128, 245, 128, 345, 120, 139, 130, 239, 140, 230, 227>>,
      <<137, 290, 147, 390, 157, 148, 158, 248, 159, 258, 277>>,
      <<236, 470, 246, 480, 256, 346, 356, 347, 456, 357, 222>>,
      <<678, 579, 679, 589, 670, 689, 680, 789, 690, 780, 777>>,
      <<123, 240, 124, 340, 125, 134, 135, 234, 145, 235, 449>>,
      <<178, 259, 179, 359, 170, 189, 180, 289, 190, 280, 499>>,
      <<268, 457, 269, 458, 260, 369, 360, 379, 460, 370, 444>>,
      <<367, 790, 467, 890, 567, 468, 568, 478, 569, 578, 999>>>>

group1 ==
    <<<<128, 245, 129, 345, 120, 139, 130, 239, 140, 230, 227>>,
      <<137, 290, 147, 390, 157, 148, 158, 248, 159, 258, 277>>,
      <<236, 470, 246, 480, 256, 346, 356, 347, 456, 357, 222>>,
      <<678, 579, 679, 589, 670, 689, 680, 789, 690, 780, 777>>,
      <<123, 240, 124, 340, 125, 134, 135, 234, 145, 235, 449>>,
      <<178, 259, 179, 359, 170, 189, 180, 289, 190, 280, 499>>,
      <<268, 457, 269, 458, 260, 369, 360, 379, 460, 370, 444>>,
      <<367, 790, 467, 890, 567, 468, 568, 478, 569, 578, 999>>>>

group2 ==
    <<<<146, 380, 138, 156, 238, 247, 167, 257, 168, 249, 166>>,
      <<119, 335, 336, 110, 337, 229, 112, 220, 113, 447, 116>>,
      <<669, 588, 688, 660, 788, 779, 266, 770, 366, 799, 111>>,
      <<169, 358, 368, 160, 378, 279, 126, 270, 136, 479, 666>>,
      <<114, 330, 133, 115, 233, 224, 117, 225, 118, 244, 338>>,
      <<466, 880, 188, 566, 288, 477, 667, 577, 668, 299, 388>>>>

group3 ==
    <<<<489, 560, 237, 570, 490, 580, 149, 590, 267, 348, 888>>,
      <<344, 100, 228, 200, 445, 300, 446, 400, 122, 339, 333>>,
      <<399, 155, 778, 255, 599, 355, 699, 455, 177, 889, 500>>,
      <<349, 150, 278, 250, 459, 350, 469, 450, 127, 389, 550>>,
      <<448, 556, 223, 557, 440, 558, 144, 559, 226, 334, 555>>,
      <<899, 600, 377, 700, 990, 800, 199, 900, 677, 488, 0>>>>

\* the three groups of FAMILY_PANA_TABLE, in the order build_family_lookup
\* processes them
FAMILY_PANA_TABLE == <<group1, group2, group3>>

\* the column lists in the order they are written to the dictionary: for each
\* group, for col_idx in range(11), [row[col_idx] for row in group]
ColumnsInOrder ==
    [k \in 1..(11 * Len(FAMILY_PANA_TABLE)) |->
        [r \in DOMAIN FAMILY_PANA_TABLE[((k - 1) \div 11) + 1] |->
            FAMILY_PANA_TABLE[((k - 1) \div 11) + 1][r][((k - 1) % 11) + 1]]]

\* build_family_lookup: family_lookup[number] = column_numbers, a later
\* column overwriting an earlier one
build_family_lookup ==
    [number \in UNION {Range(ColumnsInOrder[k]) : k \in DOMAIN ColumnsInOrder} |->
        ColumnsInOrder[CHOOSE k \in DOMAIN ColumnsInOrder :
                          /\ number \in Range(ColumnsInOrder[k])
                          /\ \A j \in (k + 1)..Len(ColumnsInOrder) :
                                number \notin Range(ColumnsInOrder[j])]]

FAMILY_LOOKUP == build_family_lookup

\* get_family_members: lookup.get(reference_number, [])
get_family_members(reference_number) ==
    IF reference_number \in DOMAIN FAMILY_LOOKUP THEN FAMILY_LOOKUP[reference_number]
    ELSE <<>>

(***************************************************************************)
(* SpecLookup: a caller expands a reference number through the lookup.     *)
(***************************************************************************)
References == 0..999

InitLookup ==
    /\ pc = [spec |-> "lookup", family |-> "reference"]
    /\ shape \in [kind : {"lookup"}, reference_number : References]
    /\ input = NoText
    /\ result = NoResult
    /\ adapter = NoResult
    /\ InitDbVars

Lookup ==
    /\ pc.spec = "lookup"
    /\ ~result.done
    /\ result' = [done |-> TRUE, members |-> get_family_members(shape.reference_number)]
    /\ UNCHANGED <<dbVars, input, shape, adapter, pc>>

NextLookup == Lookup

SpecLookup == InitLookup /\ [][NextLookup]_vars

\* C18: for every number of the table its family contains the number itself,
\* every member of the family has the same family (no number is in two
\* families), and a family has at most 11 members.
C18_FamiliesPartitionTheTable ==
    (result.done /\ shape.kind = "lookup" /\ result.members # <<>>)
        => /\ shape.reference_number \in Range(result.members)
           /\ \A m \in Range(result.members) :
                 Range(get_family_members(m)) = Range(result.members)
           /\ Len(result.members) <= 11
           /\ Cardinality(Range(result.members)) = Len(result.members)

\* the family of 678 was looked up: its eight column-mates of group 1
C18_Witness ==
    /\ result.done /\ shape.kind = "lookup" /\ shape.reference_number = 678
    /\ result.members = <<128, 137, 236, 678, 123, 178, 268, 367>>

(***************************************************************************)
(* Properties of updates and deletes of ledger records                     *)
(***************************************************************************)
\* the call that ends in the next state moved record id to another market or kind
ContextChanged(d, e, id) ==
    /\ HasRow(d, id) /\ HasRow(e, id)
    /\ \/ RowOf(d, id).bazar # RowOf(e, id).bazar
       \/ RowOf(d, id).entry_type # RowOf(e, id).entry_type

\* C19: after an update that returned True and changed the record's market or
\* kind, the rollup slices of the old context and of the new context and the
\* customer's summary equal the grouped sums of the ledger after the update.
C19_UpdateRecomputesOldAndNewContext ==
    [][(lastOp'.op = "update" /\ lastOp'.ret /\ ContextChanged(db, db', lastOp'.id))
         => \A c \in Touched(db, db', lastOp'.id) : SlicesMatch(db', c)]_vars

\* no record of the ledger d matches the rollup key of the deleted record r
\* any more, and the rollup of r's kind and the summary hold no row for it
NoRowWithoutRecord(d, r) ==
    /\ (r.entry_type = "PANA"
          /\ Ledger(d, r.bazar, r.entry_date, {"PANA"}, r.number) = {})
        => \A x \in PanaSlice(d, RowContext(r)) : x.number # r.number
    /\ (r.entry_type = "JODI"
          /\ Ledger(d, r.bazar, r.entry_date, {"JODI"}, r.number) = {})
        => \A x \in JodiSlice(d, RowContext(r)) : x.jodi_number # r.number
    /\ (r.entry_type \in TimeTypes
          /\ \A x \in d.universal_log :
                ~(/\ x.customer_id = r.customer_id /\ x.bazar = r.bazar
                  /\ x.entry_date = r.entry_date /\ x.entry_type \in TimeTypes))
        => TimeSlice(d, RowContext(r)) = {}
    /\ (\A x \in d.universal_log :
            ~(x.customer_id = r.customer_id /\ x.entry_date = r.entry_date))
        => SummarySlice(d, RowContext(r)) = {}

\* C20: after a delete that returned True, the rollup slice of the deleted
\* record's kind and context and the customer's summary equal the grouped sums
\* of the remaining ledger, whatever the rollup rows held before, and when no
\* matching record remains there is no rollup row for the key.
C20_DeleteReplacesSlices ==
    [][(lastOp'.op = "delete" /\ lastOp'.ret)
         => /\ SlicesMatch(db', RowContext(RowOf(db, lastOp'.id)))
            /\ NoRowWithoutRecord(db', RowOf(db, lastOp'.id))]_vars

(***************************************************************************)
(* SpecTwoEquals: a line that still holds a second '=' after the token     *)
(* region, the first '=' and the value.                                    *)
(***************************************************************************)
SecondEquals == {<<"=">>, <<"=", "=">>}
RestTexts == {<<>>, <<"5">>, <<"x">>}

TwoEqualsShapes ==
    [kind : {"two_equals"}, toks : SeqsUpTo(Tokens, MaxTokens), sep : AllowedSeparators,
     val : DigitValues, second : SecondEquals, rest : RestTexts]

RenderTwoEquals(sh) == Join(sh.toks, sh.sep) \o <<"=">> \o sh.val \o sh.second \o sh.rest

InitTwoEquals ==
    /\ pc = [spec |-> "parse", family |-> "two_equals"]
    /\ shape \in TwoEqualsShapes
    /\ input = RenderTwoEquals(shape)
    /\ result = NoResult
    /\ adapter = NoResult
    /\ InitDbVars

SpecTwoEquals == InitTwoEquals /\ [][NextParse]_vars

\* C21: a line that holds two or more '=' after '==' has been normalised
\* fails with the missing-assignment error and yields no entries.
C21_SecondEqualsRejected ==
    (result.done /\ shape.kind = "two_equals")
        => /\ NoEntries(result)
           /\ ~result.success
           /\ \E i \in DOMAIN result.errors :
                 result.errors[i].error = "Missing value assignment (=)"

(***************************************************************************)
(* SpecReassemble: the line reassembler on a line without '=' followed by  *)
(* continuation lines, none of which starts with '=' or is a pure value,   *)
(* so that the end of the input is reached.                                *)
(***************************************************************************)
FirstLines == {<<"1">>, <<"1", "/">>, <<"1", "2">>}
ContinuationLines ==
    {<<"2">>, <<"3", "/">>, <<"2", "=", "4", "0">>, <<"3", "4">>, <<"4", ",">>,
     <<"5", "S", "P">>}

ReassembleShapes ==
    [kind : {"reassemble"}, first : FirstLines,
     conts : SeqsUpTo(ContinuationLines, MaxLines - 1)]

RenderReassemble(sh) == Join(<<sh.first>> \o sh.conts, NL)

InitReassemble ==
    /\ pc = [spec |-> "reassemble", family |-> "continuation"]
    /\ shape \in ReassembleShapes
    /\ input = RenderReassemble(shape)
    /\ result = NoResult
    /\ adapter = NoResult
    /\ InitDbVars

\* parse runs _preprocess_multiline_values on the text first
Preprocess ==
    /\ pc.spec = "reassemble"
    /\ ~result.done
    /\ result' = [done |-> TRUE, text |-> preprocess_multiline_values(input)]
    /\ UNCHANGED <<dbVars, input, shape, adapter, pc>>

NextReassemble == Preprocess

SpecReassemble == InitReassemble /\ [][NextReassemble]_vars

RECURSIVE Concat(_)
Concat(parts) == IF parts = <<>> THEN <<>> ELSE Head(parts) \o Concat(Tail(parts))

\* the continuation lines that are plain-number tokens
Pending(conts) == {i \in DOMAIN conts : could_be_value(conts[i])}
LastPending(conts) == CHOOSE i \in Pending(conts) : \A j \in Pending(conts) : j <= i

\* C22: at the end of the input the last pending plain-number token becomes
\* the value only when no merged continuation line held '='; the logical line
\* is then the fragments before that token, '=', and the token.  When a merged
\* line held '=' (or no token is pending) the logical line is the fragments
\* as they stand.
C22_PendingValueOnlyWithoutEquals ==
    (result.done /\ shape.kind = "reassemble")
        => IF (\E i \in DOMAIN shape.conts : Contains(shape.conts[i], "="))
              \/ Pending(shape.conts) = {}
           THEN result.text = shape.first \o Concat(shape.conts)
           ELSE result.text =
                   shape.first
                   \o Concat(SubSeq(shape.conts, 1, LastPending(shape.conts) - 1))
                   \o <<"=">> \o shape.conts[LastPending(shape.conts)]

(***************************************************************************)
(* SpecLength: tokens of one to three digits, leading zeros included,      *)
(* joined by a separator of _extract_numbers and followed by =40.          *)
(***************************************************************************)
DigitTokens ==
    {<<"5">>, <<"0">>, <<"0", "5">>, <<"1", "2">>, <<"0", "0">>, <<"9", "9">>,
     <<"0", "0", "5">>, <<"0", "5", "0">>, <<"1", "2", "8">>, <<"0", "0", "0">>,
     <<"9", "9", "9">>}
SplitSeparatorChars == {"*", "/", "-", ",", "|", ":", "+", " "}

LengthShapes ==
    [kind : {"length"}, toks : SeqsUpTo(DigitTokens, MaxTokens), sep : SplitSeparatorChars]

RenderLength(sh) == Join(sh.toks, sh.sep) \o <<"=", "4", "0">>

InitLength ==
    /\ pc = [spec |-> "parse", family |-> "length"]
    /\ shape \in LengthShapes
    /\ input = RenderLength(shape)
    /\ result = NoResult
    /\ adapter = NoResult
    /\ InitDbVars

SpecLength == InitLength /\ [][NextParse]_vars

NumberRange(entry_type) ==
    IF entry_type = "time" THEN 0..9 ELSE IF entry_type = "jodi" THEN 0..99 ELSE 0..999

\* C23: every token gives one ParsedEntry whose kind is that of the token's
\* number of digit characters (1 time, 2 jodi, 3 pana), leading zeros included,
\* and whose number is the token's integer value, inside the range of the kind.
C23_KindFromDigitCount ==
    (result.done /\ shape.kind = "length")
        => /\ Len(result.entries) = Len(shape.toks)
           /\ \A i \in DOMAIN shape.toks :
                 /\ result.entries[i].cls = "ParsedEntry"
                 /\ result.entries[i].entry_type = KindOfLength(Len(shape.toks[i]))
                 /\ result.entries[i].number = int(shape.toks[i])
                 /\ result.entries[i].number \in NumberRange(result.entries[i].entry_type)

\* '05' and '005' were parsed on one line: a Jodi entry and a Pana entry, both
\* with number 5
C23_Witness ==
    /\ result.done /\ shape.kind = "length"
    /\ shape.toks = <<<<"0", "5">>, <<"0", "0", "5">>>>
    /\ result.entries[1].entry_type = "jodi" /\ result.entries[1].number = 5
    /\ result.entries[2].entry_type = "pana" /\ result.entries[2].number = 5

(***************************************************************************)
(* The jodi validator (jodi_parser.py 263-336).  A validator is the record *)
(* of its two limits, an entry the record of jodi_numbers and value.       *)
(***************************************************************************)
JodiValidator(max_jodi_numbers_per_entry, max_value_per_entry) ==
    [max_jodi_numbers_per_entry |-> max_jodi_numbers_per_entry,
     max_value_per_entry |-> max_value_per_entry]

\* the validator without its check for duplicate numbers
is_valid_ignoring_duplicates(self, entry) ==
    /\ Len(entry.jodi_numbers) <= self.max_jodi_numbers_per_entry
    /\ entry.value <= self.max_value_per_entry
    /\ \A i \in DOMAIN entry.jodi_numbers :
          0 <= entry.jodi_numbers[i] /\ entry.jodi_numbers[i] <= 99

is_valid_jodi_entry(self, entry) ==
    IF Len(entry.jodi_numbers) > self.max_jodi_numbers_per_entry THEN FALSE
    ELSE IF entry.value > self.max_value_per_entry THEN FALSE
    ELSE IF \E i \in DOMAIN entry.jodi_numbers :
               ~(0 <= entry.jodi_numbers[i] /\ entry.jodi_numbers[i] <= 99)
    THEN FALSE
    ELSE IF Len(entry.jodi_numbers) # Cardinality(Range(entry.jodi_numbers)) THEN FALSE
    ELSE TRUE

\* the messages are kept as their fixed text and the data they print
get_validation_errors(self, entry) ==
    LET invalid_numbers ==
            SelectSeq(entry.jodi_numbers, LAMBDA num : ~(0 <= num /\ num <= 99))
        duplicates ==
            {entry.jodi_numbers[i] : i \in
                {k \in DOMAIN entry.jodi_numbers :
                    \E j \in DOMAIN entry.jodi_numbers :
                        j # k /\ entry.jodi_numbers[j] = entry.jodi_numbers[k]}}
    IN (IF Len(entry.jodi_numbers) > self.max_jodi_numbers_per_entry
        THEN <<[error |-> "Too many jodi numbers",
                data |-> <<Len(entry.jodi_numbers), self.max_jodi_numbers_per_entry>>]>>
        ELSE <<>>)
       \o (IF entry.value > self.max_value_per_entry
           THEN <<[error |-> "Value too large",
                   data |-> <<entry.value, self.max_value_per_entry>>]>>
           ELSE <<>>)
       \o (IF invalid_numbers # <<>>
           THEN <<[error |-> "Invalid jodi numbers", data |-> invalid_numbers]>>
           ELSE <<>>)
       \o (IF Len(entry.jodi_numbers) # Cardinality(Range(entry.jodi_numbers))
           THEN <<[error |-> "Duplicate jodi numbers", data |-> duplicates]>>
           ELSE <<>>)

(***************************************************************************)
(* SpecJodiValidator: a caller asks both questions about one entry.        *)
(***************************************************************************)
JodiNumbers == {5, 12, 99, 100, -1}
JodiEntryValues == {0, 40, 50, 51, 100000, 100001}
Validators == {JodiValidator(100, 100000), JodiValidator(2, 100000),
               JodiValidator(100, 50), JodiValidator(2, 50)}

JodiShapes ==
    [kind : {"jodi_entry"}, validator : Validators,
     entry : [jodi_numbers : SeqsUpTo(JodiNumbers, MaxTokens + 1), value : JodiEntryValues]]

InitJodiValidator ==
    /\ pc = [spec |-> "jodi_validator", family |-> "entry"]
    /\ shape \in JodiShapes
    /\ input = NoText
    /\ result = NoResult
    /\ adapter = NoResult
    /\ InitDbVars

IsValidJodiEntry ==
    /\ pc.spec = "jodi_validator"
    /\ ~result.done
    /\ result' = [done |-> TRUE, valid |-> is_valid_jodi_entry(shape.validator, shape.entry)]
    /\ UNCHANGED <<dbVars, input, shape, adapter, pc>>

GetValidationErrors ==
    /\ pc.spec = "jodi_validator"
    /\ ~adapter.done
    /\ adapter' = [done |-> TRUE,
                   errors |-> get_validation_errors(shape.validator, shape.entry)]
    /\ UNCHANGED <<dbVars, input, shape, result, pc>>

NextJodiValidator == IsValidJodiEntry \/ GetValidationErrors

SpecJodiValidator == InitJodiValidator /\ [][NextJodiValidator]_vars

\* the rules an entry violates, stated on the entry itself
ViolatedRules(v, e) ==
    (IF Len(e.jodi_numbers) > v.max_jodi_numbers_per_entry
     THEN {"Too many jodi numbers"} ELSE {})
    \cup (IF e.value > v.max_value_per_entry THEN {"Value too large"} ELSE {})
    \cup (IF \E i \in DOMAIN e.jodi_numbers : e.jodi_numbers[i] \notin 0..99
          THEN {"Invalid jodi numbers"} ELSE {})
    \cup (IF \E i, j \in DOMAIN e.jodi_numbers : i # j /\ e.jodi_numbers[i] = e.jodi_numbers[j]
          THEN {"Duplicate jodi numbers"} ELSE {})

\* C24: is_valid_jodi_entry returns True exactly when get_validation_errors
\* returns the empty list, and the list holds exactly one reason for each rule
\* the entry violates.
C24_ValidatorAndReasonsAgree ==
    (result.done /\ adapter.done /\ shape.kind = "jodi_entry")
        => /\ result.valid <=> (adapter.errors = <<>>)
           /\ {adapter.errors[i].error : i \in DOMAIN adapter.errors}
                 = ViolatedRules(shape.validator, shape.entry)
           /\ Len(adapter.errors) = Cardinality(ViolatedRules(shape.validator, shape.entry))

\* an entry that breaks all four rules got four reasons and the answer False
C24_Witness ==
    /\ result.done /\ adapter.done /\ shape.kind = "jodi_entry"
    /\ ~result.valid /\ Len(adapter.errors) = 4

\* the line holds two or more digit tokens before '='
IsMultiTokenAssignment(sh) ==
    /\ Len(sh.toks) >= 2 /\ sh.val # <<>>
    /\ \A i \in DOMAIN sh.toks : isdigit(sh.toks[i])

\* C25: on an assignment line with two or more tokens the scored classifier
\* returns jodi only if a token has two digits, one of - : | is in the line
\* and none of / + , * is; with one of / + , * in the line it never returns
\* jodi.
C25_JodiOnlyForTwoDigitTokens ==
    (adapter.done /\ shape.kind = "classify" /\ IsMultiTokenAssignment(shape)
     /\ adapter.detected.parser_type = "jodi")
        => /\ \E i \in DOMAIN shape.toks : Len(shape.toks[i]) = 2
           /\ \E c \in {"-", ":", "|"} : Contains(input, c)
           /\ ~\E c \in {"/", "+", ",", "*"} : Contains(input, c)

(***************************************************************************)
(* Update and delete calls that are not applied, and the fields an update  *)
(* may change                                                              *)
(***************************************************************************)
\* entries of an updates dictionary that name no allowed field
ForeignUpdates ==
    {[customer_id |-> 2], [id |-> 2], [entry_date |-> "d2"], [created_at |-> 9],
     [id |-> 2, customer_id |-> 2, entry_date |-> "d2", created_at |-> 9]}

\* the updates dictionaries of the callers, alone and with such entries added
AnyUpdateMaps(family) ==
    UpdateMaps(family) \cup ForeignUpdates
    \cup {u @@ f : u \in UpdateMaps(family), f \in ForeignUpdates}

\* the iteration orders of contexts_to_recalc for an update of record id
SeqsOf(d, id, updates) ==
    IF HasRow(d, id)
    THEN Perms(UpdateContexts(RowOf(d, id), d.customers[RowOf(d, id).customer_id].name,
                              updates))
    ELSE {<<>>}

\* the update of record id cannot be applied: no such record, an inactive
\* customer, or no allowed field while the stored customer name is in sync
NotApplicable(d, id, updates) ==
    \/ ~HasRow(d, id)
    \/ ~d.customers[RowOf(d, id).customer_id].is_active
    \/ /\ DOMAIN updates \cap allowed_fields = {}
       /\ RowOf(d, id).customer_name = d.customers[RowOf(d, id).customer_id].name

Unchanged(d) == [db |-> d, ret |-> FALSE]

\* C26: an update or delete with an id that is not in the ledger, and an update
\* with no allowed field on a record whose name is in sync or on a record of
\* an inactive customer, returns False and leaves every ledger record and
\* every rollup row as it was.
C26_RejectedCallsChangeNothing ==
    Sequential =>
        \A id \in 1..(MaxEntries + 1) :
            /\ ~HasRow(db, id) => delete_universal_log_entry(db, id, NoFault) = Unchanged(db)
            /\ \A updates \in AnyUpdateMaps(pc.family) :
                  NotApplicable(db, id, updates)
                     => \A seq \in SeqsOf(db, id, updates) :
                           update_universal_log_entry(db, id, updates, seq, NoFault)
                              = Unchanged(db)

\* an update of a record of an inactive customer has been turned down while
\* the rollups hold rows
C26_Witness ==
    /\ lastOp.op = "update" /\ ~lastOp.ret /\ HasRow(db, lastOp.id)
    /\ ~db.customers[RowOf(db, lastOp.id).customer_id].is_active
    /\ db.pana_table # {} /\ db.customer_bazar_summary # {}

(***************************************************************************)
(* SpecFrame: one update_universal_log_entry call, with any updates        *)
(* dictionary, on a store that holds a record of customer 1 and a record   *)
(* of customer 2 with their rollups.                                       *)
(***************************************************************************)
OtherEntryData ==
    [customer_id |-> 2, customer_name |-> "B", entry_date |-> "d1", bazar |-> "T.O",
     number |-> 5, value |-> 1, entry_type |-> "PANA", source_line |-> "src"]

\* the store after two records were inserted and an edit recomputed their contexts
StoreOfTwo(entry_data, other) ==
    LET d1 == add_universal_log_entry(EmptyDb, entry_data).db
        d2 == add_universal_log_entry(d1, other).db
        d3 == recalculate_aggregated_tables_for_context(d2, RowContext(RowOf(d2, 1)), "none").db
    IN recalculate_aggregated_tables_for_context(d3, RowContext(RowOf(d3, 2)), "none").db

InitFrame ==
    /\ pc = [spec |-> "frame", family |-> "fields"]
    /\ \E entry_data \in ConcEntryData : db = StoreOfTwo(entry_data, OtherEntryData)
    /\ lastOp = NoOp
    /\ threads = IdleThreads
    /\ InitParseVars

\* the call, with its arguments kept in shape
UpdateWith ==
    /\ pc.spec = "frame"
    /\ shape.kind = "none"
    /\ \E id \in 1..(MaxEntries + 1), updates \in AnyUpdateMaps(pc.family) :
          \E seq \in SeqsOf(db, id, updates) :
             LET r == update_universal_log_entry(db, id, updates, seq, NoFault)
             IN /\ db' = r.db
                /\ lastOp' = [op |-> "update", id |-> id, ret |-> r.ret, fault |-> "none"]
                /\ shape' = [kind |-> "update", id |-> id, updates |-> updates]
    /\ UNCHANGED <<threads, input, result, adapter, pc>>

NextFrame == UpdateWith

SpecFrame == InitFrame /\ [][NextFrame]_vars

\* from store d to store e the ledger holds the same ids, every record keeps
\* its id, customer_id, entry_date and created_at, and every record but id is
\* the same
FrameKept(d, e, id) ==
    /\ {r.id : r \in d.universal_log} = {r.id : r \in e.universal_log}
    /\ Cardinality(e.universal_log) = Cardinality(d.universal_log)
    /\ \A r \in d.universal_log :
          /\ RowOf(e, r.id).customer_id = r.customer_id
          /\ RowOf(e, r.id).entry_date = r.entry_date
          /\ RowOf(e, r.id).created_at = r.created_at
          /\ r.id # id => r \in e.universal_log

\* C27: update_universal_log_entry never changes the record's id, customer_id,
\* entry_date or created_at, whatever fields the updates dictionary names,
\* and never changes another ledger record.
C27_UpdateKeepsIdentityFields ==
    [][lastOp'.op = "update" => FrameKept(db, db', lastOp'.id)]_vars

\* an update that named customer_id, entry_date, id and created_at next to a
\* new market was applied: record 1 moved to T.K and is still record 1 of
\* customer 1 on d1
C27_Witness ==
    /\ pc.spec = "frame" /\ lastOp.op = "update" /\ lastOp.ret /\ lastOp.id = 1
    /\ "customer_id" \in DOMAIN shape.updates /\ shape.updates.customer_id = 2
    /\ "entry_date" \in DOMAIN shape.updates
    /\ "bazar" \in DOMAIN shape.updates /\ shape.updates.bazar = "T.K"
    /\ RowOf(db, 1).bazar = "T.K" /\ RowOf(db, 1).customer_id = 1
    /\ RowOf(db, 1).entry_date = "d1"

(***************************************************************************)
(* SpecApprove: one message whose records are saved to the ledger, by the  *)
(* approval callback of the pending queue or by submit_data.  Each record  *)
(* is inserted in a transaction of its own (db_manager.py 170-175), and    *)
(* any insert of the loop can raise.                                       *)
(***************************************************************************)
\* the records business_calc.universal_entries can hold for one message
UniversalEntries ==
    [customer_id : {1}, customer_name : {"A"}, entry_date : Dates, bazar : {"T.O"},
     number : Numbers, value : {1}, entry_type : {"PANA"}, source_line : SourceLines]

Messages == SeqsUpTo(UniversalEntries, MaxEntries)

\* for entry in business_calc.universal_entries: db_manager.add_universal_log_entry(...)
\* where the insert of record number failing raises (0: none does); done is
\* FALSE when the loop was left by the exception
RECURSIVE InsertLoop(_, _, _, _)
InsertLoop(d, universal_entries, i, failing) ==
    IF i > Len(universal_entries) THEN [db |-> d, done |-> TRUE]
    ELSE IF i = failing THEN [db |-> d, done |-> FALSE]
    ELSE InsertLoop(add_universal_log_entry(d, universal_entries[i]).db,
                    universal_entries, i + 1, failing)

\* create_approval_callback.approve_and_insert: the result dictionary's
\* success and the store it leaves
approve_and_insert(d, universal_entries, failing) ==
    LET r == InsertLoop(d, universal_entries, 1, failing)
    IN [db |-> r.db, success |-> r.done]

\* the ledger may hold the records of two approvals of the message
MaxSaved == MaxEntries + MaxEntries

InitApprove ==
    /\ pc = [spec |-> "approve", family |-> "messages"]
    /\ db = EmptyDb
    /\ lastOp = NoOp
    /\ threads = IdleThreads
    /\ input = NoText
    /\ \E universal_entries \in Messages :
          shape = [kind |-> "pending", status |-> "pending",
                   universal_entries |-> universal_entries]
    /\ result = NoResult
    /\ adapter = NoResult

\* WhatsAppGUIPanel._approve_and_insert on the selected pending entry: the
\* entry is marked approved only when the callback reports success
ApproveAndInsert ==
    /\ pc.spec = "approve"
    /\ shape.status = "pending"
    /\ Cardinality(db.universal_log) + Len(shape.universal_entries) <= MaxSaved
    /\ \E failing \in 0..Len(shape.universal_entries) :
          LET r == approve_and_insert(db, shape.universal_entries, failing)
          IN /\ db' = r.db
             /\ result' = [done |-> TRUE, success |-> r.success]
             /\ shape' = IF r.success THEN [shape EXCEPT !.status = "approved"] ELSE shape
             /\ lastOp' = [op |-> "approve", id |-> failing, ret |-> r.success,
                           fault |-> IF failing = 0 THEN "none" ELSE "insert"]
    /\ UNCHANGED <<threads, input, adapter, pc>>

\* submit_data with the same text: the same loop, and the except branch
\* reports the error in the status line
SubmitData ==
    /\ pc.spec = "approve"
    /\ Cardinality(db.universal_log) + Len(shape.universal_entries) <= MaxSaved
    /\ \E failing \in 0..Len(shape.universal_entries) :
          LET r == InsertLoop(db, shape.universal_entries, 1, failing)
          IN /\ db' = r.db
             /\ adapter' = [done |-> TRUE, success |-> r.done]
             /\ lastOp' = [op |-> "submit", id |-> failing, ret |-> r.done,
                           fault |-> IF failing = 0 THEN "none" ELSE "insert"]
    /\ UNCHANGED <<threads, input, shape, result, pc>>

NextApprove == ApproveAndInsert \/ SubmitData

SpecApprove == InitApprove /\ [][NextApprove]_vars

\* C28: when approve_and_insert returns success=False, or submit_data reports
\* an error, the ledger holds no new record and the pending entry is still
\* pending.
C28_FailedSubmissionCommitsNothing ==
    [][(lastOp'.op \in {"approve", "submit"} /\ ~lastOp'.ret)
          => (db'.universal_log = db.universal_log /\ shape'.status = "pending")]_vars

(***************************************************************************)
(* SpecPana: two threads call update_pana_table_entry, each on its own     *)
(* connection (db_manager.py 24-41).  The SELECT and the write of a call   *)
(* are two statements, each committed on its own (139-161); the pana_table *)
(* of schema.sql is created with or without a UNIQUE constraint on         *)
(* (bazar, entry_date, number).                                            *)
(***************************************************************************)
Additions == {1, 2}
\* the values the pana row of (T.O, d1, 5) can hold before the calls; 0: no row
PanaValuesBefore == {0, 1, 5}

PanaRow(id, number, value) ==
    [id |-> id, bazar |-> "T.O", entry_date |-> "d1", number |-> number, value |-> value]

\* SELECT id, value FROM pana_table WHERE bazar = ? AND entry_date = ? AND number = ?
PanaRowsOf(d, number) ==
    {r \in d.pana_table : r.bazar = "T.O" /\ r.entry_date = "d1" /\ r.number = number}

InitPana ==
    /\ pc = [spec |-> "pana", family |-> "additions"]
    /\ \E before \in PanaValuesBefore :
          db = [EmptyDb EXCEPT !.pana_table =
                   IF before = 0 THEN {} ELSE {PanaRow(1, 5, before)}]
    /\ lastOp = NoOp
    /\ \E numbers \in [{1, 2} -> Numbers], additions \in [{1, 2} -> Additions] :
          threads = [t \in {1, 2} |->
                        [pc |-> "called", number |-> numbers[t],
                         value_to_add |-> additions[t], existing |-> FALSE]]
    /\ input = NoText
    /\ \E unique \in BOOLEAN : shape = [kind |-> "pana_table", unique |-> unique]
    /\ result = [done |-> FALSE, before |-> db.pana_table]
    /\ adapter = NoResult

\* existing = self.execute_query(check_query, ...)
PanaSelect(t) ==
    /\ pc.spec = "pana"
    /\ threads[t].pc = "called"
    /\ threads' = [threads EXCEPT ![t].pc = "selected",
                                  ![t].existing = PanaRowsOf(db, threads[t].number) # {}]
    /\ UNCHANGED <<db, lastOp, parseVars, pc>>

\* UPDATE pana_table SET value = value + ? WHERE bazar = ? AND entry_date = ? AND number = ?
PanaAdd(d, number, value_to_add) ==
    [d EXCEPT !.pana_table =
        {IF r \in PanaRowsOf(d, number) THEN [r EXCEPT !.value = @ + value_to_add] ELSE r :
            r \in d.pana_table}]

\* INSERT INTO pana_table (bazar, entry_date, number, value) VALUES (?, ?, ?, ?)
PanaInsertRow(d, number, value_to_add) ==
    [d EXCEPT !.pana_table =
        @ \cup {PanaRow(Cardinality(d.pana_table) + 1, number, value_to_add)}]

\* the write the call chose from its SELECT; the INSERT raises IntegrityError
\* when the table has the UNIQUE constraint and holds a row of the key
PanaWrite(t) ==
    /\ pc.spec = "pana"
    /\ threads[t].pc = "selected"
    /\ LET number == threads[t].number
           value_to_add == threads[t].value_to_add
           raises == /\ ~threads[t].existing
                     /\ shape.unique
                     /\ PanaRowsOf(db, number) # {}
       IN /\ db' = IF threads[t].existing THEN PanaAdd(db, number, value_to_add)
                   ELSE IF raises THEN db
                   ELSE PanaInsertRow(db, number, value_to_add)
          /\ threads' = [threads EXCEPT ![t].pc = IF raises THEN "raised" ELSE "returned"]
          /\ lastOp' = [op |-> "pana", id |-> t, ret |-> ~raises,
                        fault |-> IF raises THEN "IntegrityError" ELSE "none"]
    /\ UNCHANGED <<parseVars, pc>>

NextPana == \E t \in {1, 2} : PanaSelect(t) \/ PanaWrite(t)

SpecPana == InitPana /\ [][NextPana]_vars

\* SUM(value) of the rows of a key in a table
RECURSIVE PanaSum(_)
PanaSum(rows) ==
    IF rows = {} THEN 0
    ELSE LET r == CHOOSE x \in rows : TRUE IN r.value + PanaSum(rows \ {r})

\* C29: when both threads have returned from update_pana_table_entry on the
\* same (market, date, number), the key has exactly one pana row and its value
\* has grown by the sum of the two additions.
C29_NoAdditionLost ==
    (/\ pc.spec = "pana"
     /\ \A t \in {1, 2} : threads[t].pc = "returned"
     /\ threads[1].number = threads[2].number)
    => LET rows == PanaRowsOf(db, threads[1].number)
           before == {r \in result.before : r.number = threads[1].number}
       IN /\ Cardinality(rows) = 1
          /\ PanaSum(rows) = PanaSum(before) + threads[1].value_to_add + threads[2].value_to_add

(***************************************************************************)
(* The time rollup of a key after an update or a delete                    *)
(***************************************************************************)
\* the ledger records of d that count for the time rollup of context c
TimeRecords(d, c) ==
    {r \in d.universal_log :
        /\ r.customer_id = c.customer_id /\ r.bazar = c.bazar
        /\ r.entry_date = c.entry_date /\ r.entry_type \in TimeTypes
        /\ r.number >= 0 /\ r.number <= 9}

\* at most one row for the key of c; one exactly when a record counts for
\* it, and then column col holds the sum of the records of number col
TimeRowExact(d, c) ==
    /\ Cardinality(TimeSlice(d, c)) <= 1
    /\ (TimeSlice(d, c) # {}) <=> (TimeRecords(d, c) # {})
    /\ \A row \in TimeSlice(d, c) : \A col \in 0..9 :
          row.cols[col] = SumValues({r \in TimeRecords(d, c) : r.number = col})

\* C30: after an update or delete that recomputed the time rollup of a key,
\* the key has at most one time row; it has one exactly when the ledger holds
\* a TIME_DIRECT or TIME_MULTI record with number 0..9 for the key, and each
\* column of the row is the sum of the values of the records of that number.
C30_TimeRowIsTheLedgerSum ==
    [][(lastOp'.op \in {"update", "delete"} /\ lastOp'.ret)
         => \A c \in Touched(db, db', lastOp'.id) :
               c.entry_type \in TimeTypes => TimeRowExact(db', c)]_vars

\* an update was applied to a time record of number 5 whose key holds two
\* such records: the row of the key has their sum in column 5
C30_Witness ==
    /\ Sequential /\ lastOp.op = "update" /\ lastOp.ret /\ HasRow(db, lastOp.id)
    /\ LET r == RowOf(db, lastOp.id)
       IN /\ r.entry_type \in TimeTypes /\ r.number = 5
          /\ Cardinality(TimeRecords(db, RowContext(r))) = MaxEntries
          /\ \E row \in TimeSlice(db, RowContext(r)) :
                row.cols[5] = SumValues(TimeRecords(db, RowContext(r))) /\ row.cols[5] > 1

=============================================================================
